---- MODULE Spec2Model ----
(***************************************************************************)
(* Capture-and-replay subsystem of the MRAID capture tool.                 *)
(*                                                                         *)
(*  Spec        useRecorder (hook) + createRecorder + requestScreenCapture *)
(*  SpecOrch    the page's reload-and-record sequence driving the hook     *)
(*  SpecReplay  EventReplayer (loadEvents / play / stop / replayLoop).     *)
(*                                                                         *)
(* JavaScript runs handlers to completion: one action is one task, i.e. a  *)
(* handler together with the promise continuations (microtasks) it         *)
(* releases.  An async function is cut at the awaits that wait for the     *)
(* platform (permission dialog, encoder stop event, one-second timer).     *)
(* MediaRecorder follows the W3C state machine: start() throws unless the  *)
(* state is inactive, stop() on an inactive recorder does nothing.         *)
(***************************************************************************)
EXTENDS Integers, Sequences, FiniteSets, TLC

\* ---- bounds of the model ------------------------------------------------
MaxSessions == 2      \* capture requests (startRecording/prepareRecording)
MaxStops == 2         \* stopRecording calls that reach the encoder
MaxRuns == 1          \* reload-and-record runs
MaxLen == 2           \* events of an interaction trace
MaxTs == 1            \* largest event timestamp
MaxNow == 2           \* largest performance.now() reading
MaxRafs == 2          \* frame requests pending at once
MaxPx == 1            \* largest length or offset of the crop geometry
MaxClock == 3         \* largest Date.now() reading
MaxDispatches == 3    \* dispatchEvent calls of one playback
MaxElements == 2      \* preview elements mounted, one after the other

\* ---- program constants --------------------------------------------------
CountdownTicks == 3   \* for (let i = 3; i >= 1; i--)
MOUSEMOVE_THROTTLE == 16   \* const MOUSEMOVE_THROTTLE = 16

VARIABLES
  \* environment (fixed for a page load)
  isSupported,        \* checkRecordingSupport()
  mimeSupported,      \* MediaRecorder.isTypeSupported("video/webm;codecs=vp9")
  \* capture sessions: stream, compositor and encoder of every capture request
  sess,
  \* useRecorder
  isRecording, isProcessing, processingStatus, isPrepared, isPreparedRef,
  recorderRef, streamRef, cropCleanupRef,
  stops,              \* stopRecording calls that passed the null check
  completions,        \* onRecordingComplete(blob) calls, by the blob's chunks
  lastOp,             \* the last call and its outcome ("other" where no claim asks)
  \* page (Home): reload-and-record
  countdown,          \* 0 = null
  runs,               \* handleReloadAndRecord invocations: pc, loop index, log
  \* EventReplayer
  events, isPlaying, startTime, currentIndex, animationId, targetDocument,
  rafs,               \* requestAnimationFrame callbacks not yet run or cancelled
  now,                \* the last performance.now() reading
  dlog,               \* what the current playback of the loaded trace dispatched
  completes,          \* onComplete calls of the current playback
  errors,             \* onError calls of the current playback
  stoppedAt,          \* Len(dlog) at the last stop() of the playback, -1 = none
  callerEvents,       \* the array last passed to loadEvents, as its caller has it
  \* createCroppedStream / captureScreenshot
  comp,               \* one compositor: its closure, video sink and raw track
  \* createRecorder: time accounting
  rec,                \* one recorder instance, the clock and what was reported
  \* useInteractiveMode
  im,                 \* the controller's state and refs; its replayer is above
  \* interaction recorders
  ov,                 \* one OverlayRecorder
  er,                 \* one EventRecorder
  \* EventReplayer.dispatchEvent
  dsp                 \* what one replayer dispatched, event by event

recVars == <<isSupported, mimeSupported, sess, isRecording, isProcessing,
             processingStatus, isPrepared, isPreparedRef, recorderRef, streamRef,
             cropCleanupRef, stops, completions>>
pageVars == <<countdown, runs>>
replayVars == <<events, isPlaying, startTime, currentIndex, animationId,
                targetDocument, rafs, now, dlog, completes, errors, stoppedAt,
                callerEvents>>
cropVars == <<comp>>
timeVars == <<rec>>
modeVars == <<im>>
traceVars == <<ov, er, dsp>>
libVars == <<replayVars, cropVars, timeVars, modeVars, traceVars>>
vars == <<recVars, lastOp, pageVars, replayVars, cropVars, timeVars, modeVars,
          traceVars>>

Sessions == 1..MaxSessions

\* One capture request: the raw stream, the optional compositor and canvas
\* stream, and the recorder instance createRecorder builds on the stream.
NoSession ==
  [phase |-> "unused",   \* unused | dialog | denied | failed | ready
   kind |-> "none",      \* start | prepare
   crop |-> FALSE,       \* cropConfig given
   run |-> 0,            \* orchestrator run awaiting this prepare, 0 = none
   raw |-> "none",       \* raw capture track: none | live | stopped | ended
   canvas |-> "none",    \* canvas.captureStream track: none | live | stopped
   loop |-> FALSE,       \* compositor isRunning / frame callback scheduled
   sink |-> FALSE,       \* compositor video.srcObject is the raw stream
   order |-> <<>>,       \* steps of combinedCleanup in the order they ran
   rawStops |-> 0,       \* track.stop() calls on the raw track
   onended |-> "none",   \* handler on stream.getVideoTracks()[0]
   mr |-> "none",        \* MediaRecorder.state: none | inactive | recording
   recOn |-> FALSE,      \* RecorderState.isRecording
   started |-> FALSE,    \* recorder.start() was invoked
   chunks |-> "empty",   \* chunks.length: empty (0) | some (> 0)
   stopEvt |-> FALSE,    \* stop event queued by mediaRecorder.stop()
   onstop |-> 0,         \* stopRecording call whose promise onstop settles
   torn |-> FALSE]       \* history: cleanupPrepared ran on this session

\* The hook's state as one value, so that a handler is a function on it.
Hook ==
  [sess |-> sess, isRecording |-> isRecording, isProcessing |-> isProcessing,
   processingStatus |-> processingStatus, isPrepared |-> isPrepared,
   isPreparedRef |-> isPreparedRef, recorderRef |-> recorderRef,
   streamRef |-> streamRef, cropCleanupRef |-> cropCleanupRef,
   stops |-> stops, completions |-> completions]

SetHook(h) ==
  /\ sess' = h.sess
  /\ isRecording' = h.isRecording
  /\ isProcessing' = h.isProcessing
  /\ processingStatus' = h.processingStatus
  /\ isPrepared' = h.isPrepared
  /\ isPreparedRef' = h.isPreparedRef
  /\ recorderRef' = h.recorderRef
  /\ streamRef' = h.streamRef
  /\ cropCleanupRef' = h.cropCleanupRef
  /\ stops' = h.stops
  /\ completions' = h.completions

UsedSessions == {s \in Sessions : sess[s].phase # "unused"}

\* ---- lib/capture/recorder.ts ---------------------------------------------

\* track.stop(): a live track becomes stopped; an ended track stays ended.
StopTrack(t) == IF t = "live" THEN "stopped" ELSE t

\* requestScreenCapture once getDisplayMedia has resolved: the raw stream,
\* and for a crop config the canvas stream with its draw loop.
RequestScreenCapture(h, s) ==
  IF h.sess[s].crop
    THEN [h EXCEPT !.sess[s].raw = "live", !.sess[s].canvas = "live",
                   !.sess[s].loop = TRUE, !.sess[s].sink = TRUE]
    ELSE [h EXCEPT !.sess[s].raw = "live"]

\* A combined cleanup that stops the raw tracks before the compositor.
MutCombinedCleanup(h, s) ==
  LET h1 == [h EXCEPT !.sess[s].raw = StopTrack(@),
                      !.sess[s].rawStops = @ + 1,
                      !.sess[s].order = Append(@, "raw")]
  IN [h1 EXCEPT !.sess[s].loop = FALSE,
                !.sess[s].sink = FALSE,
                !.sess[s].order = @ \o <<"cancel", "detach">>]
\* createCroppedStream.cleanup (isRunning = false and cancelAnimationFrame,
\* then video.pause() and video.srcObject = null) followed by the raw tracks'
\* stop.
CombinedCleanup(h, s) ==
  LET h1 == [h EXCEPT !.sess[s].loop = FALSE,
                      !.sess[s].order = Append(@, "cancel")]
      h2 == [h1 EXCEPT !.sess[s].sink = FALSE,
                       !.sess[s].order = Append(@, "detach")]
  IN [h2 EXCEPT !.sess[s].raw = StopTrack(@),
                !.sess[s].rawStops = @ + 1,
                !.sess[s].order = Append(@, "raw")]

\* recorder.cleanup(): stops the tracks of the stream the recorder was built on
\* (the canvas stream of a cropped capture, the raw stream otherwise).
RecorderCleanup(h, r) ==
  IF h.sess[r].crop
    THEN [h EXCEPT !.sess[r].canvas = StopTrack(@)]
    ELSE [h EXCEPT !.sess[r].raw = StopTrack(@), !.sess[r].rawStops = @ + 1]

\* recorder.start(): resets the buffer and flags, then mediaRecorder.start(100),
\* which throws InvalidStateError unless the encoder is inactive.
RecorderStart(h, r) ==
  LET h1 == [h EXCEPT !.sess[r].chunks = "empty", !.sess[r].recOn = TRUE,
                      !.sess[r].started = TRUE]
  IN IF h.sess[r].mr = "inactive"
       THEN [h |-> [h1 EXCEPT !.sess[r].mr = "recording"], threw |-> FALSE]
       ELSE [h |-> h1, threw |-> TRUE]

\* recorder.stop() up to the returned promise: binds onstop to the calling
\* stopRecording and calls mediaRecorder.stop().  (onerror is bound in the same
\* place; an encoder error in the instant between mediaRecorder.stop() and its
\* stop event is not part of the model.)
RecorderStop(h, r, id) ==
  IF h.sess[r].mr = "recording"
    THEN [h EXCEPT !.sess[r].onstop = id, !.sess[r].mr = "inactive",
                   !.sess[r].stopEvt = TRUE]
    ELSE [h EXCEPT !.sess[r].onstop = id]

\* onstop without the empty-buffer check.
MutStopOutcome(chunks) == "blob"
\* onstop: rejects when the buffer is empty, resolves with the blob otherwise.
StopOutcome(chunks) == IF chunks = "empty" THEN "NoDataRecorded" ELSE "blob"

\* ---- hooks/use-recorder.ts -----------------------------------------------

\* if (cropCleanupRef.current) { cropCleanupRef.current(); ... = null }
CropCleanup(h) ==
  IF h.cropCleanupRef # 0
    THEN [CombinedCleanup(h, h.cropCleanupRef) EXCEPT !.cropCleanupRef = 0]
    ELSE h

\* cleanupPrepared dropping the crop cleanup instead of calling it.
MutCleanupPrepared(h) ==
  LET h1 == IF h.recorderRef # 0
              THEN [RecorderCleanup(h, h.recorderRef) EXCEPT
                      !.recorderRef = 0, !.sess[h.recorderRef].torn = TRUE]
              ELSE h
  IN [h1 EXCEPT !.streamRef = 0, !.cropCleanupRef = 0,
                !.isPreparedRef = FALSE, !.isPrepared = FALSE]
\* cleanupPrepared.
CleanupPrepared(h) ==
  LET h1 == IF h.recorderRef # 0
              THEN [RecorderCleanup(h, h.recorderRef) EXCEPT
                      !.recorderRef = 0, !.sess[h.recorderRef].torn = TRUE]
              ELSE h
      h2 == CropCleanup([h1 EXCEPT !.streamRef = 0])
  IN [h2 EXCEPT !.isPreparedRef = FALSE, !.isPrepared = FALSE]

\* stopRecording up to its await (the caller has checked recorderRef).
StopRecordingCall(h) ==
  LET id == Len(h.stops) + 1
      h1 == [h EXCEPT !.isProcessing = TRUE,
                      !.processingStatus = "Stopping recording..."]
      h2 == RecorderStop(h1, h.recorderRef, id)
  IN [h2 EXCEPT !.stops = Append(@, [target |-> h.recorderRef,
                                     status |-> "awaiting",
                                     chunks |-> "unknown"])]

\* The catch block of stopRecording.
StopFailed(h, id, err) ==
  LET h1 == IF h.recorderRef # 0
              THEN [RecorderCleanup(h, h.recorderRef) EXCEPT !.recorderRef = 0]
              ELSE h
      h2 == CropCleanup([h1 EXCEPT !.streamRef = 0])
  IN [h2 EXCEPT !.isRecording = FALSE, !.isProcessing = FALSE,
                !.processingStatus = "", !.stops[id].status = err]

\* stopRecording after its await settled with `outcome`; `n` is the buffer
\* onstop found (kept with the call for the record).
StopSettled(h0, id, outcome, n) ==
  LET h == [h0 EXCEPT !.stops[id].chunks = n]
  IN IF outcome # "blob" THEN StopFailed(h, id, outcome)
     ELSE IF h.recorderRef = 0 THEN StopFailed(h, id, "TypeError")
     ELSE LET h1 == [RecorderCleanup(h, h.recorderRef) EXCEPT !.recorderRef = 0]
              h2 == CropCleanup([h1 EXCEPT !.streamRef = 0])
          IN [h2 EXCEPT !.isRecording = FALSE, !.isProcessing = FALSE,
                        !.processingStatus = "",
                        !.completions = Append(@, n),
                        !.stops[id].status = "blob"]

\* stopRecording entering the processing state before its null check.
MutStopRecording(h) ==
  IF h.recorderRef = 0
    THEN [h |-> [h EXCEPT !.isProcessing = TRUE,
                          !.processingStatus = "Stopping recording..."],
          res |-> "null"]
    ELSE [h |-> StopRecordingCall(h), res |-> "awaiting"]
\* stopRecording as called: null when no recorder is referenced.
StopRecording(h) ==
  IF h.recorderRef = 0
    THEN [h |-> h, res |-> "null"]
    ELSE [h |-> StopRecordingCall(h), res |-> "awaiting"]

\* beginPreparedRecording checking the recorder only, not the prepared flag.
MutBeginPreparedRecording(h) ==
  IF h.recorderRef = 0
    THEN [h |-> h, res |-> "noop"]
    ELSE LET r == RecorderStart(h, h.recorderRef)
         IN IF r.threw
              THEN [h |-> r.h, res |-> "threw"]
              ELSE [h |-> [r.h EXCEPT !.isPreparedRef = FALSE,
                                      !.isPrepared = FALSE,
                                      !.isRecording = TRUE],
                    res |-> "started"]
\* beginPreparedRecording.
BeginPreparedRecording(h) ==
  IF h.recorderRef = 0 \/ ~h.isPreparedRef
    THEN [h |-> h, res |-> "noop"]
    ELSE LET r == RecorderStart(h, h.recorderRef)
         IN IF r.threw
              THEN [h |-> r.h, res |-> "threw"]
              ELSE [h |-> [r.h EXCEPT !.isPreparedRef = FALSE,
                                      !.isPrepared = FALSE,
                                      !.isRecording = TRUE],
                    res |-> "started"]

\* The onended handler startRecording ("start") or prepareRecording
\* ("prepare") puts on the first video track of the stream it records.
OnEnded(h, kind) ==
  IF h.recorderRef # 0 /\ h.sess[h.recorderRef].recOn
    THEN StopRecording(h).h
    ELSE IF kind = "prepare" THEN CleanupPrepared(h) ELSE h

\* startRecording / prepareRecording after `await requestScreenCapture`
\* resolved for request s: the rest of the try block.
AfterAcquire(h, s) ==
  LET kind == h.sess[s].kind
      h1 == [RequestScreenCapture(h, s) EXCEPT
               !.streamRef = s,
               !.cropCleanupRef = IF h.sess[s].crop THEN s ELSE 0]
  IN IF ~mimeSupported
       THEN [h1 EXCEPT !.sess[s].phase = "failed"]
       ELSE LET h2 == [h1 EXCEPT !.sess[s].mr = "inactive",
                                 !.recorderRef = s,
                                 !.sess[s].onended = kind]
            IN IF kind = "start"
                 THEN LET r == RecorderStart(h2, s)
                      IN IF r.threw
                           THEN [r.h EXCEPT !.sess[s].phase = "failed"]
                           ELSE [r.h EXCEPT !.sess[s].phase = "ready",
                                            !.isRecording = TRUE]
                 ELSE [h2 EXCEPT !.sess[s].phase = "ready",
                                 !.isPreparedRef = TRUE,
                                 !.isPrepared = TRUE]

\* ---- app/page.tsx: handleReloadAndRecord -----------------------------------

\* The run going on to the countdown whether or not prepareRecording failed.
MutOrchPrepared(r, ok) ==
  [r EXCEPT !.pc = "countdown", !.i = CountdownTicks,
            !.log = Append(@, "prepared")]
\* A run after its `await recorder.prepareRecording(cropConfig)` settled.
OrchPrepared(r, ok) ==
  IF ok
    THEN [r EXCEPT !.pc = "countdown", !.i = CountdownTicks,
                   !.log = Append(@, "prepared")]
    ELSE [r EXCEPT !.pc = "aborted", !.log = Append(@, "prepare_failed")]

\* A run when one of its one-second timers fires: the next countdown value,
\* or after the last one the reload and beginPreparedRecording.
OrchTick(r) ==
  IF r.i > 1
    THEN [r EXCEPT !.i = @ - 1, !.log = Append(@, "tick")]
    ELSE [r EXCEPT !.i = 0, !.pc = "done",
                   !.log = @ \o <<"tick", "reload", "begin">>]

\* ---- the hook's operations ----------------------------------------------------

NewSession == Cardinality(UsedSessions) + 1

\* startRecording(cropConfig) / prepareRecording(cropConfig) up to the await of
\* the permission dialog; `run` is the orchestrator run that awaits it.
Request(kind, crop, run) ==
  /\ isSupported
  /\ NewSession <= MaxSessions
  /\ \A s \in Sessions : sess[s].phase # "dialog"   \* one sharing dialog at a time
  /\ sess' = [sess EXCEPT ![NewSession] =
                [NoSession EXCEPT !.phase = "dialog", !.kind = kind,
                                  !.crop = crop, !.run = run]]
  /\ UNCHANGED <<isSupported, mimeSupported, isRecording, isProcessing,
                 processingStatus, isPrepared, isPreparedRef, recorderRef,
                 streamRef, cropCleanupRef, stops, completions>>

Unsupported(op) ==
  /\ ~isSupported
  /\ lastOp' = op
  /\ UNCHANGED <<isSupported, mimeSupported, sess, isRecording, isProcessing,
                 processingStatus, isPrepared, isPreparedRef, recorderRef,
                 streamRef, cropCleanupRef, stops, completions>>

StartRecordingCall ==
  /\ \/ \E crop \in BOOLEAN : Request("start", crop, 0) /\ lastOp' = "other"
     \/ Unsupported("start:unsupported")
  /\ UNCHANGED <<pageVars, libVars>>

PrepareRecordingCall ==
  /\ \/ \E crop \in BOOLEAN : Request("prepare", crop, 0) /\ lastOp' = "other"
     \/ Unsupported("prepare:unsupported")
  /\ UNCHANGED <<pageVars, libVars>>

BeginCall ==
  LET b == BeginPreparedRecording(Hook)
  IN /\ SetHook(b.h)
     /\ lastOp' = "begin:" \o b.res
     /\ UNCHANGED <<isSupported, mimeSupported, pageVars, libVars>>

StopCall ==
  LET c == StopRecording(Hook)
  IN /\ Len(stops) < MaxStops
     /\ SetHook(c.h)
     /\ lastOp' = "stop:" \o c.res
     /\ UNCHANGED <<isSupported, mimeSupported, pageVars, libVars>>

\* ---- the page's reload-and-record ----------------------------------------------

HandleReloadAndRecord ==
  /\ UNCHANGED libVars
  /\ \E tag \in BOOLEAN, crop \in BOOLEAN :
    IF ~tag
      THEN /\ lastOp' = "other"
           /\ UNCHANGED <<isSupported, mimeSupported, sess, isRecording,
                          isProcessing, processingStatus, isPrepared,
                          isPreparedRef, recorderRef, streamRef, cropCleanupRef,
                          stops, completions, pageVars>>
      ELSE /\ Len(runs) < MaxRuns
           /\ lastOp' = "other"
           /\ \/ /\ Request("prepare", crop, Len(runs) + 1)
                 /\ runs' = Append(runs, [pc |-> "preparing", i |-> 0, log |-> <<>>])
                 /\ UNCHANGED countdown
              \/ /\ ~isSupported
                 /\ runs' = Append(runs, OrchPrepared(
                               [pc |-> "preparing", i |-> 0, log |-> <<>>], FALSE))
                 /\ countdown' = 0
                 /\ UNCHANGED recVars

\* The orchestrator's continuation when prepareRecording for request s settles.
OrchContinue(s, ok) ==
  LET k == sess[s].run
  IN IF k = 0
       THEN UNCHANGED pageVars
       ELSE /\ runs' = [runs EXCEPT ![k] = OrchPrepared(@, ok)]
            /\ countdown' = IF runs'[k].pc = "countdown" THEN runs'[k].i ELSE 0

CountdownTimer(k) ==
  /\ k \in DOMAIN runs
  /\ runs[k].pc = "countdown"
  /\ LET r2 == OrchTick(runs[k])
         new == SubSeq(r2.log, Len(runs[k].log) + 1, Len(r2.log))
         begins == \E j \in DOMAIN new : new[j] = "begin"
         b == BeginPreparedRecording(Hook)
     IN /\ runs' = [runs EXCEPT ![k] = r2]
        /\ countdown' = r2.i
        /\ IF begins THEN SetHook(b.h) ELSE SetHook(Hook)
        /\ lastOp' = "other"
  /\ UNCHANGED <<isSupported, mimeSupported, libVars>>

\* ---- the platform ---------------------------------------------------------------

\* The user accepts the sharing dialog of request s.
DialogGranted(s) ==
  /\ sess[s].phase = "dialog"
  /\ LET h == AfterAcquire(Hook, s)
     IN /\ SetHook(h)
        /\ OrchContinue(s, h.sess[s].phase = "ready")
  /\ lastOp' = "other"
  /\ UNCHANGED <<isSupported, mimeSupported, libVars>>

\* An acquisition that marks the hook prepared before the dialog settles.
MutAcquireFailed(h, s) ==
  [h EXCEPT !.sess[s].phase = "denied", !.isPreparedRef = TRUE,
            !.isPrepared = TRUE]
\* getDisplayMedia rejects: requestScreenCapture throws out of the await,
\* before the first assignment of startRecording / prepareRecording.
AcquireFailed(h, s) == [h EXCEPT !.sess[s].phase = "denied"]

\* The user declines it: getDisplayMedia rejects, the call rethrows.
DialogDenied(s) ==
  /\ sess[s].phase = "dialog"
  /\ SetHook(AcquireFailed(Hook, s))
  /\ OrchContinue(s, FALSE)
  /\ lastOp' = sess[s].kind \o ":denied"
  /\ UNCHANGED <<isSupported, mimeSupported, libVars>>

\* The task mediaRecorder.stop() queued: the last dataavailable, then onstop,
\* then the continuation of the stopRecording awaiting it.  ondataavailable
\* only appends to a buffer that nothing reads before onstop, so whether any
\* non-empty chunk arrived since start() (`data`) is drawn here, at the read.
StopEvent(s) ==
  /\ sess[s].stopEvt
  /\ \E data \in BOOLEAN :
       /\ LET n == IF data THEN "some" ELSE sess[s].chunks
              id == sess[s].onstop
              h1 == [Hook EXCEPT !.sess[s].chunks = n, !.sess[s].stopEvt = FALSE,
                                 !.sess[s].recOn = FALSE]
          IN IF stops[id].status = "awaiting"
               THEN SetHook(StopSettled(h1, id, StopOutcome(n), n))
               ELSE SetHook(h1)
  /\ lastOp' = "other"
  /\ UNCHANGED <<isSupported, mimeSupported, pageVars, libVars>>

\* The capture ends outside the application (the user stops sharing): the raw
\* track fires ended.  The handler sits on the first video track of the stream
\* that is recorded, which is the raw track only without a crop config.  (What
\* the encoder does by itself once its tracks have ended is not modelled: the
\* handler above is the application's reaction.)
TrackEnded(s) ==
  /\ sess[s].raw = "live"
  /\ LET h1 == [Hook EXCEPT !.sess[s].raw = "ended"]
         fires == ~sess[s].crop /\ sess[s].onended # "none"
         h2 == IF fires THEN OnEnded(h1, sess[s].onended) ELSE h1
     IN /\ Len(h2.stops) <= MaxStops
        /\ SetHook(h2)
  /\ lastOp' = "other"
  /\ UNCHANGED <<isSupported, mimeSupported, pageVars, libVars>>

\* ---- lib/interaction/event-recorder.ts: EventReplayer -------------------------

\* InteractionEvent, as far as the replay loop reads it: the timestamp; id is
\* the event's position in the caller's array.  The events are of the mouse and
\* touch types, for which dispatchEvent makes a legacy and a pointer event.
\* fault tells what the dispatch of the event runs into in the target document:
\* nothing ("none"), an exception before anything was dispatched ("target":
\* elementFromPoint or the legacy event's constructor throws), or one after the
\* legacy event went out ("pointer": the PointerEvent constructor throws).
Timestamps == 0..MaxTs
Faults == {"none", "target", "pointer"}

\* The caller's arrays: every capture order of up to MaxLen events.
Traces == UNION {[1..n -> Timestamps] : n \in 0..MaxLen}

Tagged(input) ==
  [k \in 1..Len(input) |-> [id |-> k, timestamp |-> input[k], fault |-> "none"]]

\* A trace of which the event at capture position f fails in the way `fault`.
TaggedFaulty(input, f, fault) ==
  [k \in 1..Len(input) |->
     [id |-> k, timestamp |-> input[k],
      fault |-> IF k = f THEN fault ELSE "none"]]

\* What the progress callbacks of one tick do besides reading their arguments:
\* the k-th of them calls stop() (k = 0: none does; a second stop() in the same
\* tick would change nothing).
Callbacks == 0..MaxLen

\* The replayer's fields as one value, so that a method is a function on it.
Replayer ==
  [events |-> events, isPlaying |-> isPlaying, startTime |-> startTime,
   currentIndex |-> currentIndex, animationId |-> animationId,
   targetDocument |-> targetDocument, rafs |-> rafs, dlog |-> dlog,
   completes |-> completes, errors |-> errors, stoppedAt |-> stoppedAt,
   callerEvents |-> callerEvents]

SetReplayer(r) ==
  /\ events' = r.events
  /\ isPlaying' = r.isPlaying
  /\ startTime' = r.startTime
  /\ currentIndex' = r.currentIndex
  /\ animationId' = r.animationId
  /\ targetDocument' = r.targetDocument
  /\ rafs' = r.rafs
  /\ dlog' = r.dlog
  /\ completes' = r.completes
  /\ errors' = r.errors
  /\ stoppedAt' = r.stoppedAt
  /\ callerEvents' = r.callerEvents

\* Array.prototype.sort with (a, b) => a.timestamp - b.timestamp: a stable sort,
\* here by insertion after the last element that is not later.
RECURSIVE InsertByTimestamp(_, _)
InsertByTimestamp(sorted, e) ==
  IF sorted = <<>> THEN <<e>>
  ELSE IF sorted[Len(sorted)].timestamp <= e.timestamp THEN Append(sorted, e)
  ELSE Append(InsertByTimestamp(SubSeq(sorted, 1, Len(sorted) - 1), e),
              sorted[Len(sorted)])

RECURSIVE SortedUpTo(_, _)
SortedUpTo(evs, n) ==
  IF n = 0 THEN <<>> ELSE InsertByTimestamp(SortedUpTo(evs, n - 1), evs[n])

\* loadEvents keeping the capture order.
MutSortEvents(evs) == evs
\* [...events].sort((a, b) => a.timestamp - b.timestamp)
SortEvents(evs) == SortedUpTo(evs, Len(evs))

\* The caller's array after a loadEvents that sorted it in place.
MutCallerArray(evs) == SortEvents(evs)
\* The caller's array after loadEvents(evs): [...events] is a copy, and only
\* the copy is sorted.
CallerArray(evs) == evs

\* loadEvents that leaves the cursor where the last playback took it.
MutLoadEvents(r, evs) ==
  [r EXCEPT !.events = SortEvents(evs), !.dlog = <<>>,
            !.stoppedAt = IF @ = -1 THEN -1 ELSE 0,
            !.callerEvents = CallerArray(evs)]
\* loadEvents(events)
LoadEvents(r, evs) ==
  [r EXCEPT !.events = SortEvents(evs), !.currentIndex = 0, !.dlog = <<>>,
            !.stoppedAt = IF @ = -1 THEN -1 ELSE 0,
            !.callerEvents = CallerArray(evs)]

\* stop() that cancels the frame request and leaves the flags alone.
MutReplayerStop(r) ==
  [r EXCEPT !.rafs = IF r.animationId = "pending" THEN @ - 1 ELSE @,
            !.animationId = "null",
            !.stoppedAt = Len(r.dlog)]
\* stop(): cancelAnimationFrame does nothing for a request that already ran.
ReplayerStop(r) ==
  [r EXCEPT !.isPlaying = FALSE,
            !.rafs = IF r.animationId = "pending" THEN @ - 1 ELSE @,
            !.animationId = "null",
            !.targetDocument = FALSE,
            !.stoppedAt = Len(r.dlog)]

\* dispatchEvent whose catch block reports to callbacks.onError.
MutDispatchEvent(r, e) ==
  LET entry(what) == [i |-> r.currentIndex, ts |-> e.timestamp, what |-> what]
  IN IF ~r.targetDocument THEN r
     ELSE IF e.fault = "target"
       THEN [r EXCEPT !.dlog = @ \o <<entry("caught")>>, !.errors = @ + 1]
     ELSE IF e.fault = "pointer"
       THEN [r EXCEPT !.dlog = @ \o <<entry("legacy"), entry("caught")>>,
                      !.errors = @ + 1]
     ELSE [r EXCEPT !.dlog = @ \o <<entry("legacy"), entry("pointer")>>]
\* dispatchEvent(event) for a mouse or touch event: the legacy event and then
\* the pointer event go to the target; nothing without a target document.  The
\* whole dispatch sits in a try block whose catch only warns ("caught").
DispatchEvent(r, e) ==
  LET entry(what) == [i |-> r.currentIndex, ts |-> e.timestamp, what |-> what]
  IN IF ~r.targetDocument THEN r
     ELSE IF e.fault = "target"
       THEN [r EXCEPT !.dlog = @ \o <<entry("caught")>>]
     ELSE IF e.fault = "pointer"
       THEN [r EXCEPT !.dlog = @ \o <<entry("legacy"), entry("caught")>>]
     ELSE [r EXCEPT !.dlog = @ \o <<entry("legacy"), entry("pointer")>>]

\* The loop of replayLoop as an `if`: one due event per tick.
MutReplayBatch(r, elapsed, cb, k) ==
  IF r.currentIndex < Len(r.events)
     /\ r.events[r.currentIndex + 1].timestamp <= elapsed
    THEN LET e == r.events[r.currentIndex + 1]
             r1 == IF ~r.targetDocument THEN r
                   ELSE [r EXCEPT !.dlog = @ \o
                           <<[i |-> r.currentIndex, ts |-> e.timestamp,
                              what |-> "legacy"],
                             [i |-> r.currentIndex, ts |-> e.timestamp,
                              what |-> "pointer"]>>]
             r2 == [r1 EXCEPT !.currentIndex = @ + 1,
                              !.dlog = Append(@, [i |-> r.currentIndex,
                                                  ts |-> e.timestamp,
                                                  what |-> "progress"])]
         IN IF k = cb
              THEN [r2 EXCEPT !.isPlaying = FALSE, !.targetDocument = FALSE,
                              !.rafs = IF r2.animationId = "pending"
                                         THEN @ - 1 ELSE @,
                              !.animationId = "null",
                              !.stoppedAt = Len(r2.dlog)]
              ELSE r2
    ELSE r
\* The while loop of replayLoop; k counts its iterations, and the onProgress
\* of iteration cb calls stop().
RECURSIVE ReplayBatch(_, _, _, _)
ReplayBatch(r, elapsed, cb, k) ==
  IF r.currentIndex < Len(r.events)
     /\ r.events[r.currentIndex + 1].timestamp <= elapsed
    THEN LET e == r.events[r.currentIndex + 1]
             r1 == DispatchEvent(r, e)
             r2 == [r1 EXCEPT !.currentIndex = @ + 1,
                              !.dlog = Append(@, [i |-> r.currentIndex,
                                                  ts |-> e.timestamp,
                                                  what |-> "progress"])]
             r3 == IF k = cb THEN ReplayerStop(r2) ELSE r2
         IN ReplayBatch(r3, elapsed, cb, k + 1)
    ELSE r

\* replayLoop taking the last event's turn for the end of the trace.
MutReplayLoop(r, t, cb) ==
  IF ~r.isPlaying \/ ~r.targetDocument THEN r
  ELSE LET r1 == ReplayBatch(r, t - r.startTime, cb, 1)
       IN IF r1.currentIndex + 1 >= Len(r1.events)
            THEN [r1 EXCEPT !.isPlaying = FALSE, !.completes = @ + 1]
            ELSE [r1 EXCEPT !.animationId = "pending", !.rafs = @ + 1]
\* replayLoop with performance.now() reading t.
ReplayLoop(r, t, cb) ==
  IF ~r.isPlaying \/ ~r.targetDocument THEN r
  ELSE LET r1 == ReplayBatch(r, t - r.startTime, cb, 1)
       IN IF r1.currentIndex >= Len(r1.events)
            THEN [r1 EXCEPT !.isPlaying = FALSE, !.completes = @ + 1]
            ELSE [r1 EXCEPT !.animationId = "pending", !.rafs = @ + 1]

\* play() that starts the loop without looking at iframe.contentDocument.
MutReplayerPlay(r, t, doc, cb) ==
  IF r.isPlaying THEN r
  ELSE LET r0 == [r EXCEPT !.dlog = <<>>, !.completes = 0, !.errors = 0,
                           !.stoppedAt = -1]
       IN IF Len(r.events) = 0 THEN [r0 EXCEPT !.completes = 1]
          ELSE ReplayLoop([r0 EXCEPT !.targetDocument = TRUE,
                                     !.isPlaying = TRUE,
                                     !.currentIndex = 0,
                                     !.startTime = t], t, cb)

\* play() that looks at iframe.contentDocument before the length of the trace.
MutPlayDocumentFirst(r, t, doc, cb) ==
  IF r.isPlaying THEN r
  ELSE LET r0 == [r EXCEPT !.dlog = <<>>, !.completes = 0, !.errors = 0,
                           !.stoppedAt = -1]
       IN IF ~doc THEN [r0 EXCEPT !.errors = 1]
          ELSE IF Len(r.events) = 0 THEN [r0 EXCEPT !.completes = 1]
          ELSE ReplayLoop([r0 EXCEPT !.targetDocument = TRUE,
                                     !.isPlaying = TRUE,
                                     !.currentIndex = 0,
                                     !.startTime = t], t, cb)

\* play(iframe, callbacks) with performance.now() reading t; doc tells whether
\* iframe.contentDocument is accessible.
ReplayerPlay(r, t, doc, cb) ==
  IF r.isPlaying THEN r
  ELSE LET r0 == [r EXCEPT !.dlog = <<>>, !.completes = 0, !.errors = 0,
                           !.stoppedAt = -1]
       IN IF Len(r.events) = 0 THEN [r0 EXCEPT !.completes = 1]
          ELSE IF ~doc THEN [r0 EXCEPT !.errors = 1]
          ELSE ReplayLoop([r0 EXCEPT !.targetDocument = TRUE,
                                     !.isPlaying = TRUE,
                                     !.currentIndex = 0,
                                     !.startTime = t], t, cb)

\* Which way play(iframe, callbacks) goes.
PlayOutcome(r, doc) ==
  IF r.isPlaying THEN "play:playing"
  ELSE IF Len(r.events) = 0 THEN "play:empty"
  ELSE IF ~doc THEN "play:nodoc"
  ELSE "play:started"

UnchangedCapture ==
  UNCHANGED <<recVars, pageVars, cropVars, timeVars, modeVars, traceVars>>

LoadEventsCall ==
  /\ \E input \in Traces : SetReplayer(LoadEvents(Replayer, Tagged(input)))
  /\ lastOp' = "load"
  /\ UNCHANGED now
  /\ UnchangedCapture

\* loadEvents of a trace one event of which cannot be dispatched, on a replayer
\* that has nothing loaded yet (useInteractiveMode.replay makes a replayer, loads
\* it once and plays it).
LoadFaultyEventsCall ==
  /\ events = <<>> /\ ~isPlaying
  /\ \E input \in Traces \ {<<>>} :
       \E f \in 1..Len(input), fault \in Faults \ {"none"} :
         SetReplayer(LoadEvents(Replayer, TaggedFaulty(input, f, fault)))
  /\ lastOp' = "load"
  /\ UNCHANGED now
  /\ UnchangedCapture

PlayCall ==
  /\ \E t \in now..MaxNow, doc \in BOOLEAN, cb \in Callbacks :
       LET r == ReplayerPlay(Replayer, t, doc, cb)
       IN /\ r.rafs <= MaxRafs /\ SetReplayer(r) /\ now' = t
          /\ lastOp' = PlayOutcome(Replayer, doc)
  /\ UnchangedCapture

ReplayerStopCall ==
  /\ SetReplayer(ReplayerStop(Replayer))
  /\ lastOp' = "stop"
  /\ UNCHANGED now
  /\ UnchangedCapture

\* The browser runs the oldest pending frame request; animationId names the
\* newest one.
AnimationFrame ==
  /\ rafs > 0
  /\ \E t \in now..MaxNow, cb \in Callbacks :
       LET r0 == [Replayer EXCEPT
                    !.rafs = @ - 1,
                    !.animationId = IF @ = "pending" /\ rafs = 1
                                      THEN "fired" ELSE @]
           r == ReplayLoop(r0, t, cb)
       IN r.rafs <= MaxRafs /\ SetReplayer(r) /\ now' = t /\ lastOp' = "frame"
  /\ UnchangedCapture

\* ---- lib/capture/recorder.ts: createCroppedStream, captureScreenshot ------

Sizes == 1..MaxPx
\* element.getBoundingClientRect(): the element may be narrower than the ad
\* (width 0); it starts at the viewport's origin or at the far edge.
Rects == [left : {0, MaxPx}, top : {0, MaxPx},
          width : 0..MaxPx, height : 0..MaxPx]
\* window.innerWidth / window.innerHeight
Viewports == [width : Sizes, height : Sizes]

\* No drawImage call yet.
NoRect == [sx |-> 0, sy |-> 0, sw |-> 0, sh |-> 0, dx |-> 0, dy |-> 0,
           videoWidth |-> 0, videoHeight |-> 0,
           rect |-> [left |-> 0, top |-> 0, width |-> 0, height |-> 0],
           vp |-> [width |-> 0, height |-> 0],
           to |-> <<0, 0, 0, 0>>]

NoCompositor ==
  [made |-> FALSE,           \* createCroppedStream was called
   width |-> 0, height |-> 0,   \* cropConfig.width / height (canvas size)
   isRunning |-> FALSE,
   frameRequested |-> FALSE, \* the request animationId names is outstanding
   srcObject |-> FALSE,      \* video.srcObject is the raw stream
   paused |-> TRUE,          \* video.paused
   videoWidth |-> 0, videoHeight |-> 0,
   raw |-> "none",           \* raw capture track: none | live | stopped | ended
   getter |-> TRUE,          \* cropConfig.element is a function
   held |-> 0,               \* the element cropConfig.element is, if it is one
   previewFrame |-> 1,       \* the element previewFrameRef.current is, 0 = null
   mounted |-> 1,            \* preview elements mounted so far
   element |-> 0,            \* what getElement() gave the last drawFrame
   tick |-> "none",          \* last drawFrame: none | off | skip | blank | draw
   by |-> "none",            \* who made the last drawImage call
   src |-> NoRect]           \* source rectangle of the last drawImage call

\* The source rectangle of the draw call in video pixels.  The code computes in
\* floating point; here the values are exact fractions sx/dx, sw/dx, sy/dy,
\* sh/dy over the common denominators dx = 2*viewportWidth, dy = 2*viewportHeight:
\*   adLeft = rect.left + (rect.width - width) / 2, sx = adLeft * scaleX,
\*   sw = width * scaleX, scaleX = videoWidth / viewportWidth.
\* What the rectangle was computed from is kept with it (frame size, element
\* rectangle, viewport), and so is the destination rectangle of the call.
\* The source rectangle without the centring of the ad in its element.
MutSourceRect(rect, width, height, videoWidth, videoHeight, vp) ==
  [sx |-> 2 * rect.left * videoWidth,
   sy |-> 2 * rect.top * videoHeight,
   sw |-> 2 * width * videoWidth,
   sh |-> 2 * height * videoHeight,
   dx |-> 2 * vp.width,
   dy |-> 2 * vp.height,
   videoWidth |-> videoWidth, videoHeight |-> videoHeight,
   rect |-> rect, vp |-> vp, to |-> <<0, 0, width, height>>]
SourceRect(rect, width, height, videoWidth, videoHeight, vp) ==
  [sx |-> (2 * rect.left + rect.width - width) * videoWidth,
   sy |-> (2 * rect.top + rect.height - height) * videoHeight,
   sw |-> 2 * width * videoWidth,
   sh |-> 2 * height * videoHeight,
   dx |-> 2 * vp.width,
   dy |-> 2 * vp.height,
   videoWidth |-> videoWidth, videoHeight |-> videoHeight,
   rect |-> rect, vp |-> vp, to |-> <<0, 0, width, height>>]

\* drawFrame that returns on an unresolved element without asking for the
\* next frame.
MutDrawFrame(c, el, rect, vp) ==
  IF ~c.isRunning THEN [c EXCEPT !.tick = "off", !.frameRequested = FALSE]
  ELSE IF el = 0
    THEN [c EXCEPT !.element = 0, !.tick = "skip", !.frameRequested = FALSE]
  ELSE IF c.videoWidth # 0 /\ c.videoHeight # 0
    THEN [c EXCEPT !.element = el, !.tick = "draw", !.by = "drawFrame",
                   !.src = SourceRect(rect, c.width, c.height,
                                      c.videoWidth, c.videoHeight, vp),
                   !.frameRequested = TRUE]
  ELSE [c EXCEPT !.element = el, !.tick = "blank", !.frameRequested = TRUE]
\* drawFrame with what getElement() (an element, 0 = null),
\* getBoundingClientRect() and window give.
DrawFrame(c, el, rect, vp) ==
  IF ~c.isRunning THEN [c EXCEPT !.tick = "off", !.frameRequested = FALSE]
  ELSE IF el = 0
    THEN [c EXCEPT !.element = 0, !.tick = "skip", !.frameRequested = TRUE]
  ELSE IF c.videoWidth # 0 /\ c.videoHeight # 0
    THEN [c EXCEPT !.element = el, !.tick = "draw", !.by = "drawFrame",
                   !.src = SourceRect(rect, c.width, c.height,
                                      c.videoWidth, c.videoHeight, vp),
                   !.frameRequested = TRUE]
  ELSE [c EXCEPT !.element = el, !.tick = "blank", !.frameRequested = TRUE]

\* createCroppedStream.cleanup: isRunning = false, cancelAnimationFrame,
\* video.pause(), video.srcObject = null.
CompositorCleanup(c) ==
  [c EXCEPT !.isRunning = FALSE,
            !.frameRequested = FALSE,
            !.paused = TRUE,
            !.srcObject = FALSE,
            !.videoWidth = 0, !.videoHeight = 0]

\* requestScreenCapture.combinedCleanup of this compositor.
CompositorCombinedCleanup(c) ==
  [CompositorCleanup(c) EXCEPT !.raw = StopTrack(@)]

\* One run of drawFrame: the element is unresolved (rectangle and viewport are
\* then not read), or it resolves and has some rectangle in some viewport.
RunDrawFrame(c) ==
  \/ comp' = DrawFrame(c, 0, CHOOSE r \in Rects : TRUE,
                       CHOOSE v \in Viewports : TRUE)
  \/ \E rect \in Rects, vp \in Viewports :
       comp' = DrawFrame(c, c.previewFrame, rect, vp)

UnchangedButCrop ==
  UNCHANGED <<recVars, pageVars, replayVars, timeVars, modeVars, traceVars>>

\* createCroppedStream(sourceStream, cropConfig) on a fresh raw stream; a new
\* capture may follow one that was cleaned up.
CreateCroppedStreamCall ==
  /\ ~comp.made \/ ~comp.isRunning
  /\ \E w \in Sizes, h \in Sizes :
       comp' = [NoCompositor EXCEPT !.made = TRUE, !.width = w, !.height = h,
                                    !.isRunning = TRUE, !.srcObject = TRUE,
                                    !.paused = FALSE, !.raw = "live"]
  /\ lastOp' = "crop:create"
  /\ UnchangedButCrop

\* video.onloadedmetadata: the frame size is known (not zero, HTML media
\* element readyState HAVE_METADATA) and drawFrame runs for the first time.
VideoLoadedMetadata ==
  /\ comp.made /\ comp.srcObject /\ comp.videoWidth = 0 /\ comp.raw = "live"
  /\ \E vw \in Sizes, vh \in Sizes :
       RunDrawFrame([comp EXCEPT !.videoWidth = vw, !.videoHeight = vh])
  /\ lastOp' = "crop:loaded"
  /\ UnchangedButCrop

\* The browser runs the outstanding frame request.
CompositorFrame ==
  /\ comp.frameRequested
  /\ RunDrawFrame(comp)
  /\ lastOp' = "crop:frame"
  /\ UnchangedButCrop

\* The cleanup function requestScreenCapture returned is called.
CompositorCleanupCall ==
  /\ comp.made
  /\ comp' = CompositorCombinedCleanup(comp)
  /\ lastOp' = "crop:cleanup"
  /\ UnchangedButCrop

\* The user ends the share from the browser's own controls.
RawTrackEnded ==
  /\ comp.raw = "live"
  /\ comp' = [comp EXCEPT !.raw = "ended"]
  /\ lastOp' = "crop:ended"
  /\ UnchangedButCrop

\* captureScreenshot from its draw call on: one frame of its own stream is
\* cropped with the same arithmetic, without the check for a zero frame size.
\* The screenshot has no state in common with a compositor, so it is explored
\* from the states without one.
CaptureScreenshotCall ==
  /\ ~comp.made
  /\ \E w \in Sizes, h \in Sizes, vw \in Sizes, vh \in Sizes, rect \in Rects,
        vp \in Viewports :
       comp' = [comp EXCEPT !.by = "captureScreenshot",
                            !.src = SourceRect(rect, w, h, vw, vh, vp)]
  /\ lastOp' = "crop:screenshot"
  /\ UnchangedButCrop

\* ---- the crop element: getElement and the preview's ref ---------------------

\* getElement(): the getter is called on every run, an element is itself.
\* current is what previewFrameRef.current holds when the getter runs.
MutGetElement(c, current) ==
  IF c.getter /\ c.element = 0 THEN current
  ELSE IF c.getter THEN c.element
  ELSE c.held
GetElement(c, current) == IF c.getter THEN current ELSE c.held

\* getBoundingClientRect() of preview element k as the page lays it out, one
\* pixel further right and down per reload; an element that is no longer in
\* the document has the empty rectangle at the origin.
LayoutRect(c, k) ==
  IF k = c.previewFrame
    THEN [left |-> k - 1, top |-> k - 1, width |-> 1, height |-> 1]
    ELSE [left |-> 0, top |-> 0, width |-> 0, height |-> 0]

\* One run of drawFrame against the page as it is.
RunDrawFrameOnPage(c) ==
  \E vp \in Viewports :
    LET el == GetElement(c, c.previewFrame)
    IN comp' = DrawFrame(c, el, LayoutRect(c, el), vp)

\* createCroppedStream for the preview: handleReloadAndRecord passes the getter
\* () => previewFrameRef.current, a caller that has the element passes it.
CreateForPreview ==
  /\ ~comp.made \/ ~comp.isRunning
  /\ \E getter \in BOOLEAN, w \in Sizes, h \in Sizes :
       /\ getter \/ comp.previewFrame # 0
       /\ comp' = [NoCompositor EXCEPT
                     !.made = TRUE, !.width = w, !.height = h,
                     !.isRunning = TRUE, !.srcObject = TRUE, !.paused = FALSE,
                     !.raw = "live", !.getter = getter,
                     !.held = IF getter THEN 0 ELSE comp.previewFrame,
                     !.previewFrame = comp.previewFrame,
                     !.mounted = comp.mounted]
  /\ lastOp' = "crop:create"
  /\ UnchangedButCrop

\* video.onloadedmetadata with the page as it is.
PreviewLoadedMetadata ==
  /\ comp.made /\ comp.srcObject /\ comp.videoWidth = 0 /\ comp.raw = "live"
  /\ \E vw \in Sizes, vh \in Sizes :
       RunDrawFrameOnPage([comp EXCEPT !.videoWidth = vw, !.videoHeight = vh])
  /\ lastOp' = "crop:loaded"
  /\ UnchangedButCrop

\* The browser runs the outstanding frame request.
PreviewFrame ==
  /\ comp.frameRequested
  /\ RunDrawFrameOnPage(comp)
  /\ lastOp' = "crop:frame"
  /\ UnchangedButCrop

\* The preview reloads: its element is unmounted (the ref is null) ...
PreviewUnmount ==
  /\ comp.previewFrame # 0
  /\ comp.mounted < MaxElements
  /\ comp' = [comp EXCEPT !.previewFrame = 0]
  /\ lastOp' = "page:unmount"
  /\ UnchangedButCrop

\* ... and a new element is mounted in its place.
PreviewMount ==
  /\ comp.previewFrame = 0
  /\ comp.mounted < MaxElements
  /\ comp' = [comp EXCEPT !.previewFrame = comp.mounted + 1,
                          !.mounted = comp.mounted + 1]
  /\ lastOp' = "page:mount"
  /\ UnchangedButCrop

\* ---- lib/capture/recorder.ts: createRecorder, time accounting -------------

\* The instance createRecorder returns, with the clock Date.now() reads.
NewRecorder ==
  [startTime |-> 0, pausedDuration |-> 0, pauseStart |-> 0,
   isRecording |-> FALSE, isPaused |-> FALSE, duration |-> 0,
   mr |-> "inactive",       \* MediaRecorder.state: inactive | recording | paused
   stopEvt |-> FALSE,       \* stop event queued by mediaRecorder.stop()
   clock |-> 0,             \* Date.now()
   since |-> 0,             \* measured: clock units since start()
   pausedFor |-> 0,         \* measured: clock units the encoder spent paused
   reported |-> 0]          \* duration of the last getState() or stop

\* start(); mediaRecorder.start(100) is legal because the encoder is inactive.
TimedStart(r) ==
  [r EXCEPT !.startTime = r.clock, !.pausedDuration = 0,
            !.isRecording = TRUE, !.isPaused = FALSE, !.mr = "recording",
            !.since = 0, !.pausedFor = 0]

\* pause(); mediaRecorder.pause() throws on an inactive encoder, before the
\* assignments.
TimedPause(r) ==
  IF r.isRecording /\ ~r.isPaused /\ r.mr # "inactive"
    THEN [r EXCEPT !.mr = "paused", !.isPaused = TRUE, !.pauseStart = r.clock]
    ELSE r

\* resume(); mediaRecorder.resume() throws on an inactive encoder, before the
\* assignments.
TimedResume(r) ==
  IF r.isRecording /\ r.isPaused /\ r.mr # "inactive"
    THEN [r EXCEPT !.mr = "recording", !.isPaused = FALSE,
                   !.pausedDuration = @ + (r.clock - r.pauseStart)]
    ELSE r

\* getState().duration
GetStateDuration(r) ==
  IF r.isRecording THEN r.clock - r.startTime - r.pausedDuration
  ELSE r.duration

\* mediaRecorder.onstop as stop() binds it, up to the duration.
TimedOnStop(r) ==
  LET d == r.clock - r.startTime - r.pausedDuration
  IN [r EXCEPT !.isRecording = FALSE, !.isPaused = FALSE, !.duration = d,
               !.stopEvt = FALSE, !.reported = d]

UnchangedButTime ==
  UNCHANGED <<recVars, pageVars, replayVars, cropVars, modeVars, traceVars>>

RecorderStartCall ==
  /\ rec.mr = "inactive" /\ ~rec.stopEvt
  /\ rec' = TimedStart(rec)
  /\ lastOp' = "rec:start"
  /\ UnchangedButTime

RecorderPauseCall ==
  /\ rec' = TimedPause(rec)
  /\ lastOp' = "rec:pause"
  /\ UnchangedButTime

RecorderResumeCall ==
  /\ rec' = TimedResume(rec)
  /\ lastOp' = "rec:resume"
  /\ UnchangedButTime

RecorderGetState ==
  /\ rec' = [rec EXCEPT !.reported = GetStateDuration(rec)]
  /\ lastOp' = IF rec.isRecording THEN "rec:getState" ELSE "rec:getState:idle"
  /\ UnchangedButTime

\* stop() on a started recorder: mediaRecorder.stop() queues the stop event.
RecorderStopCall ==
  /\ rec.mr # "inactive"
  /\ rec' = [rec EXCEPT !.mr = "inactive", !.stopEvt = TRUE]
  /\ lastOp' = "rec:stop"
  /\ UnchangedButTime

RecorderStopEvent ==
  /\ rec.stopEvt
  /\ rec' = TimedOnStop(rec)
  /\ lastOp' = "rec:stopped"
  /\ UnchangedButTime

\* One unit of wall-clock time passes; it counts as paused time when the
\* encoder is paused.
ClockTick ==
  /\ rec.clock < MaxClock
  /\ rec' = [rec EXCEPT !.clock = @ + 1,
                        !.since = IF rec.isRecording THEN @ + 1 ELSE @,
                        !.pausedFor = IF rec.mr = "paused" THEN @ + 1 ELSE @]
  /\ lastOp' = "rec:tick"
  /\ UnchangedButTime

\* ---- hooks/use-interactive-mode.ts --------------------------------------------

\* replayProgress === undefined
NoProgress == [currentEvent |-> -1, totalEvents |-> -1]

NewInteractiveMode ==
  [mode |-> "idle",            \* idle | recording | recorded | replaying
   events |-> <<>>,
   replayProgress |-> NoProgress,
   recorderRef |-> FALSE,      \* an OverlayRecorder is held
   replayerRef |-> FALSE,      \* an EventReplayer is held
   updateIntervalRef |-> FALSE]

\* new EventReplayer(); the browser's pending frame requests are not its own.
NewReplayer(pending) ==
  [events |-> <<>>, isPlaying |-> FALSE, startTime |-> 0, currentIndex |-> 0,
   animationId |-> "null", targetDocument |-> FALSE, rafs |-> pending,
   dlog |-> <<>>, completes |-> 0, errors |-> 0, stoppedAt |-> -1,
   callerEvents |-> <<>>]

\* onComplete that leaves the progress of the last event in place.
MutImOnComplete(m) == [m EXCEPT !.mode = "recorded"]
\* The onComplete callback replay() passes to play().
ImOnComplete(m) ==
  [m EXCEPT !.mode = "recorded", !.replayProgress = NoProgress]

\* The onError callback replay() passes to play().
ImOnError(m) == [m EXCEPT !.mode = "recorded", !.replayProgress = NoProgress]

\* The catch block of replay().
ImCatch(m) == [m EXCEPT !.mode = "recorded", !.replayProgress = NoProgress]

\* The finally block of replay().
ImFinally(m) == [m EXCEPT !.replayerRef = FALSE]

\* The callbacks one run of the replay loop made, applied in their order: an
\* onProgress for every event the loop passed (entries `made` of the log),
\* then onComplete and with it the settled promise's finally block.
ImCallbacks(m, made, total, completed) ==
  LET prog == SelectSeq(made, LAMBDA e : e.what = "progress")
      m1 == IF Len(prog) > 0
              THEN [m EXCEPT !.replayProgress =
                      [currentEvent |-> prog[Len(prog)].i + 1,
                       totalEvents |-> total]]
              ELSE m
  IN IF completed THEN ImFinally(ImOnComplete(m1)) ELSE m1

\* replay(iframe) with performance.now() reading t and the iframe's document
\* accessible or not: the controller and its new replayer afterwards.
ImReplay(m, t, doc, pending) ==
  IF m.mode # "recorded" \/ Len(m.events) = 0
    THEN [m |-> m, r |-> Replayer, res |-> "refused"]
  ELSE LET m0 == [m EXCEPT !.mode = "replaying",
                           !.replayProgress =
                             [currentEvent |-> 0, totalEvents |-> Len(m.events)],
                           !.replayerRef = TRUE]
           r0 == LoadEvents(NewReplayer(pending), m.events)
           r1 == ReplayerPlay(r0, t, doc, 0)
       IN IF r1.errors > 0
            THEN [m |-> ImFinally(ImCatch(ImOnError(m0))), r |-> r1,
                  res |-> "rejected"]
            ELSE [m |-> ImCallbacks(m0, r1.dlog, Len(r1.events),
                                    r1.completes > 0),
                  r |-> r1,
                  res |-> IF r1.completes > 0 THEN "completed" ELSE "started"]

\* clear()
ImClear(m) ==
  [m EXCEPT !.recorderRef = FALSE, !.replayerRef = FALSE,
            !.updateIntervalRef = FALSE, !.mode = "idle", !.events = <<>>,
            !.replayProgress = NoProgress]

UnchangedButMode ==
  UNCHANGED <<recVars, pageVars, cropVars, timeVars, traceVars>>

\* startRecording(options); `success` is what OverlayRecorder.start returns.
ImStartRecordingCall ==
  /\ \E success \in BOOLEAN :
       IF im.mode \notin {"idle", "recorded"} \/ ~success
         THEN /\ im' = im
              /\ lastOp' = "im:record:refused"
         ELSE /\ im' = [im EXCEPT !.recorderRef = TRUE, !.mode = "recording",
                                  !.updateIntervalRef = TRUE]
              /\ lastOp' = "im:record"
  /\ UNCHANGED replayVars
  /\ UnchangedButMode

\* stopRecording(); the overlay recorder hands over what it captured.
ImStopRecordingCall ==
  /\ IF im.mode # "recording" \/ ~im.recorderRef
       THEN /\ im' = im
            /\ lastOp' = "im:stop:refused"
       ELSE /\ \E input \in Traces :
                 im' = [im EXCEPT !.updateIntervalRef = FALSE,
                                  !.events = Tagged(input),
                                  !.mode = "recorded", !.recorderRef = FALSE]
            /\ lastOp' = "im:stop"
  /\ UNCHANGED replayVars
  /\ UnchangedButMode

ImReplayCall ==
  /\ \E t \in now..MaxNow, doc \in BOOLEAN :
       LET a == ImReplay(im, t, doc, rafs)
       IN /\ a.r.rafs <= MaxRafs
          /\ im' = a.m
          /\ SetReplayer(a.r)
          /\ now' = IF a.res = "refused" THEN now ELSE t
          /\ lastOp' = "im:replay:" \o a.res
  /\ UnchangedButMode

\* The browser runs the replayer's frame request; the loop calls back into the
\* controller.
ImAnimationFrame ==
  /\ rafs > 0
  /\ \E t \in now..MaxNow :
       LET r0 == [Replayer EXCEPT
                    !.rafs = @ - 1,
                    !.animationId = IF @ = "pending" /\ rafs = 1
                                      THEN "fired" ELSE @]
           r == ReplayLoop(r0, t, 0)
           made == SubSeq(r.dlog, Len(r0.dlog) + 1, Len(r.dlog))
           done == r.completes > r0.completes
       IN /\ r.rafs <= MaxRafs
          /\ SetReplayer(r)
          /\ im' = ImCallbacks(im, made, Len(r.events), done)
          /\ now' = t
          /\ lastOp' = IF done THEN "im:frame:completed" ELSE "im:frame"
  /\ UnchangedButMode

ImClearCall ==
  /\ im' = ImClear(im)
  /\ IF im.replayerRef THEN SetReplayer(ReplayerStop(Replayer))
                       ELSE UNCHANGED <<events, isPlaying, startTime,
                                        currentIndex, animationId,
                                        targetDocument, rafs, dlog, completes,
                                        errors, stoppedAt, callerEvents>>
  /\ UNCHANGED now
  /\ lastOp' = "im:clear"
  /\ UnchangedButMode

\* ---- lib/interaction/overlay-recorder.ts: OverlayRecorder ----------------------

\* Math.round of a non-negative length given in halves of its unit.
Round(h) == (h + 1) \div 2

\* performance.now() as the overlay recorder reads it, in half milliseconds.
OverlayReadings == 0..MaxNow

\* The ad is one pixel wide and high.  A pointer position is given relative to
\* the iframe's rectangle (clientX - rect.left, clientY - rect.top) in half
\* pixels: on the ad's diagonal from just before its origin to just beyond its
\* far corner, or level with the ad but above it.
AdSizes == {1}
Points == {[x |-> c, y |-> c] : c \in -1..3} \cup {[x |-> 1, y |-> -1]}
NoPoint == [x |-> -9, y |-> -9]

\* What stop() returned since the trace was last emptied by start() or clear().
NotStopped == [stopped |-> FALSE, events |-> <<>>]
Returned(trace) == [stopped |-> TRUE, events |-> trace]

NewOverlayRecorder ==
  [events |-> <<>>, startTime |-> 0, isRecording |-> FALSE,
   iframe |-> FALSE,         \* this.iframe (with container and overlay) is set
   listeners |-> FALSE,      \* the mousemove, blur and touchstart listeners
   width |-> 0, height |-> 0,
   lastMouseX |-> 0, lastMouseY |-> 0, isMouseOverAd |-> FALSE,
   now |-> 0,                \* the last performance.now() reading
   focusTimers |-> 0,        \* setTimeout(() => window.focus(), 100) pending
   count |-> -1,             \* last onEventCountChange(count), -1 = none
   lastMove |-> NoPoint,     \* observed: position of the last mousemove handled
   returned |-> NotStopped]  \* observed: what the last stop() returned

\* recordEvent / recordTouchEvent: the event is rounded and pushed, then the
\* count callback runs.  Lengths are in pixels and milliseconds.
RecordEvent(o, type, x, y, timestamp) ==
  [o EXCEPT !.events = Append(@, [type |-> type,
                                   timestamp |-> Round(timestamp),
                                   x |-> Round(x), y |-> Round(y)]),
            !.count = Len(o.events) + 1]

\* start() that keeps the events of the recording before.
MutOverlayStart(o, t, hasIframe, w, h) ==
  IF o.isRecording \/ ~hasIframe THEN o
  ELSE [o EXCEPT !.iframe = TRUE, !.width = w, !.height = h,
                 !.startTime = t, !.listeners = TRUE,
                 !.isRecording = TRUE, !.now = t, !.returned = NotStopped]
\* start(options) with performance.now() reading t; hasIframe tells whether
\* the container holds an iframe.
OverlayStart(o, t, hasIframe, w, h) ==
  IF o.isRecording \/ ~hasIframe THEN o
  ELSE [o EXCEPT !.iframe = TRUE, !.width = w, !.height = h,
                 !.events = <<>>, !.startTime = t, !.listeners = TRUE,
                 !.isRecording = TRUE, !.now = t, !.returned = NotStopped]

\* stop(): this.events itself when no recording runs, a copy of it otherwise.
OverlayStop(o) ==
  IF ~o.isRecording THEN [o EXCEPT !.returned = Returned(o.events)]
  ELSE [o EXCEPT !.isRecording = FALSE, !.listeners = FALSE, !.iframe = FALSE,
                 !.returned = Returned(o.events)]

\* clear()
OverlayClear(o) == [o EXCEPT !.events = <<>>, !.returned = NotStopped]

\* onMouseMove with the pointer at p; widths are in pixels, p in half pixels.
OnMouseMove(o, p) ==
  IF ~o.isRecording \/ ~o.iframe THEN o
  ELSE LET over == p.x >= 0 /\ p.y >= 0
                   /\ p.x <= 2 * o.width /\ p.y <= 2 * o.height
       IN IF over
            THEN [o EXCEPT !.isMouseOverAd = TRUE, !.lastMouseX = p.x,
                           !.lastMouseY = p.y, !.lastMove = p]
            ELSE [o EXCEPT !.isMouseOverAd = FALSE, !.lastMove = p]

\* onWindowBlur that takes every blur for a click.
MutOnWindowBlur(o, t) ==
  IF ~o.isRecording THEN o
  ELSE [RecordEvent(o, "click", o.lastMouseX, o.lastMouseY, t - o.startTime)
          EXCEPT !.focusTimers = @ + 1, !.now = t]
\* onWindowBlur with performance.now() reading t.
OnWindowBlur(o, t) ==
  IF ~o.isRecording \/ ~o.isMouseOverAd THEN o
  ELSE [RecordEvent(o, "click", o.lastMouseX, o.lastMouseY, t - o.startTime)
          EXCEPT !.focusTimers = @ + 1, !.now = t]

\* onTouchStart that records whether or not a recording is running.
MutOnTouchStart(o, p, t) ==
  IF p = NoPoint THEN o
  ELSE IF p.x < 0 \/ p.y < 0 \/ p.x > 2 * o.width \/ p.y > 2 * o.height
    THEN o
  ELSE [RecordEvent(o, "touchstart", p.x, p.y, t - o.startTime)
          EXCEPT !.now = t]
\* onTouchStart with first touch p (NoPoint: event.touches is empty).
OnTouchStart(o, p, t) ==
  IF ~o.isRecording \/ ~o.iframe THEN o
  ELSE IF p = NoPoint THEN o
  ELSE IF p.x < 0 \/ p.y < 0 \/ p.x > 2 * o.width \/ p.y > 2 * o.height
    THEN o
  ELSE [RecordEvent(o, "touchstart", p.x, p.y, t - o.startTime)
          EXCEPT !.now = t]

\* new EventRecorder()
NewEventRecorder ==
  [events |-> <<>>, startTime |-> 0, isRecording |-> FALSE,
   lastMouseMoveTime |-> 0,  \* in half milliseconds
   targetDocument |-> FALSE,
   now |-> 0,                \* the last performance.now() reading
   returned |-> NotStopped]  \* observed: what the last stop() returned

UnchangedButOverlay ==
  UNCHANGED <<recVars, pageVars, replayVars, cropVars, timeVars, modeVars, er,
              dsp>>

\* The two recorders are separate objects; each is explored with the other
\* one untouched.
OverlayStartCall ==
  /\ er = NewEventRecorder
  /\ \E t \in OverlayReadings, hasIframe \in BOOLEAN, w \in AdSizes,
        h \in AdSizes :
       /\ t >= ov.now
       /\ ov' = OverlayStart(ov, t, hasIframe, w, h)
       /\ lastOp' = IF ov.isRecording \/ ~hasIframe THEN "ov:start:refused"
                                                    ELSE "ov:start"
  /\ UnchangedButOverlay

OverlayStopCall ==
  /\ er = NewEventRecorder
  /\ ov' = OverlayStop(ov)
  /\ lastOp' = "ov:stop"
  /\ UnchangedButOverlay

OverlayClearCall ==
  /\ er = NewEventRecorder
  /\ ov' = OverlayClear(ov)
  /\ lastOp' = "ov:clear"
  /\ UnchangedButOverlay

\* A mousemove reaches the handler (also one that was already on its way when
\* the listeners were removed).
OverlayMouseMove ==
  /\ er = NewEventRecorder
  /\ \E p \in Points : ov' = OnMouseMove(ov, p)
  /\ lastOp' = "ov:mousemove"
  /\ UnchangedButOverlay

\* The window loses focus; it has it back once a pending focus restore ran.
OverlayWindowBlur ==
  /\ er = NewEventRecorder
  /\ Len(ov.events) < MaxLen
  /\ ov.focusTimers = 0
  /\ \E t \in OverlayReadings :
       /\ t >= ov.now
       /\ ov' = OnWindowBlur(ov, t)
  /\ lastOp' = "ov:blur"
  /\ UnchangedButOverlay

OverlayTouchStart ==
  /\ er = NewEventRecorder
  /\ Len(ov.events) < MaxLen
  /\ \E t \in OverlayReadings, p \in Points \cup {NoPoint} :
       /\ t >= ov.now
       /\ ov' = OnTouchStart(ov, p, t)
  /\ lastOp' = "ov:touch"
  /\ UnchangedButOverlay

\* A focus-restore timer fires: window.focus().
OverlayFocusTimer ==
  /\ er = NewEventRecorder
  /\ ov.focusTimers > 0
  /\ ov' = [ov EXCEPT !.focusTimers = @ - 1]
  /\ lastOp' = "ov:focus"
  /\ UnchangedButOverlay

\* ---- lib/interaction/event-recorder.ts: EventRecorder --------------------------

\* performance.now() as the event recorder reads it, in half milliseconds:
\* whole throttle intervals, with or without half a millisecond more.
RecorderReadings ==
  {2 * MOUSEMOVE_THROTTLE * k + d : k \in 0..MaxNow, d \in 0..1}

\* The event types the handlers are made for, as far as the handler tells them
\* apart: mousemove is throttled, the others (click stands for them) are not.
HandledTypes == {"click", "mousemove"}

\* start(iframe) with performance.now() reading t; doc tells whether
\* iframe.contentDocument is accessible.
EventRecorderStart(r, t, doc) ==
  IF r.isRecording \/ ~doc THEN r
  ELSE [r EXCEPT !.targetDocument = TRUE, !.events = <<>>, !.startTime = t,
                 !.isRecording = TRUE, !.now = t, !.returned = NotStopped]

\* stop(): this.events itself when no recording runs, a copy of it otherwise.
EventRecorderStop(r) ==
  IF ~r.isRecording THEN [r EXCEPT !.returned = Returned(r.events)]
  ELSE [r EXCEPT !.isRecording = FALSE, !.targetDocument = FALSE,
                 !.returned = Returned(r.events)]

\* clear()
EventRecorderClear(r) == [r EXCEPT !.events = <<>>, !.returned = NotStopped]

\* The handler createHandler(eventType) returns, run at performance.now() = t.
Handler(r, eventType, t) ==
  IF ~r.isRecording THEN r
  ELSE LET timestamp == t - r.startTime
           r1 == [r EXCEPT !.now = t]
       IN IF eventType = "mousemove"
             /\ timestamp - r.lastMouseMoveTime < 2 * MOUSEMOVE_THROTTLE
            THEN r1
            ELSE [r1 EXCEPT
                    !.lastMouseMoveTime =
                       IF eventType = "mousemove" THEN timestamp ELSE @,
                    !.events = Append(@, [type |-> eventType,
                                          timestamp |-> Round(timestamp)])]

UnchangedButEvents ==
  UNCHANGED <<recVars, pageVars, replayVars, cropVars, timeVars, modeVars, ov,
              dsp>>

EventRecorderStartCall ==
  /\ ov = NewOverlayRecorder
  /\ \E t \in RecorderReadings, doc \in BOOLEAN :
       /\ t >= er.now
       /\ er' = EventRecorderStart(er, t, doc)
       /\ lastOp' = IF er.isRecording \/ ~doc THEN "er:start:refused"
                                              ELSE "er:start"
  /\ UnchangedButEvents

EventRecorderStopCall ==
  /\ ov = NewOverlayRecorder
  /\ er' = EventRecorderStop(er)
  /\ lastOp' = "er:stop"
  /\ UnchangedButEvents

EventRecorderClearCall ==
  /\ ov = NewOverlayRecorder
  /\ er' = EventRecorderClear(er)
  /\ lastOp' = "er:clear"
  /\ UnchangedButEvents

\* An event of the iframe's document reaches its handler (also one that was
\* already on its way when the listeners were removed).
EventRecorderEvent ==
  /\ ov = NewOverlayRecorder
  /\ Len(er.events) < MaxLen
  /\ \E t \in RecorderReadings, eventType \in HandledTypes :
       /\ t >= er.now
       /\ er' = Handler(er, eventType, t)
  /\ lastOp' = "er:event"
  /\ UnchangedButEvents

\* ---- lib/interaction/event-recorder.ts: EventReplayer.dispatchEvent ---------

\* InteractionEvent as dispatchEvent reads it: the type, and the locator in
\* event.target, here by what querySelector does with it in the target
\* document: there is none, it is no valid selector (querySelector throws), it
\* matches nothing, or it matches an element.
MouseTypes == {"click", "mousedown", "mouseup", "mousemove"}
TouchTypes == {"touchstart", "touchmove", "touchend"}
EventTypes == MouseTypes \cup TouchTypes \cup {"scroll"}
Locators == {"absent", "invalid", "unmatched", "matching"}

\* findTarget that goes by the coordinates alone.
MutFindTarget(event, hit) == IF hit THEN "elementFromPoint" ELSE "body"
\* findTarget(event): the element the locator matches, else the element at the
\* event's coordinates (hit: elementFromPoint finds one), else the body.
FindTarget(event, hit) ==
  LET element == IF event.target = "matching" THEN "querySelector" ELSE "null"
  IN IF event.target # "absent" /\ event.target # "invalid"
        /\ element # "null"
       THEN element
       ELSE IF hit THEN "elementFromPoint" ELSE "body"

\* event.type.replace("mouse", "pointer"): the first "mouse" in the type becomes
\* "pointer"; a type without one stays as it is.
ReplaceMouseByPointer(type) ==
  CASE type = "mousedown" -> "pointerdown"
    [] type = "mouseup" -> "pointerup"
    [] type = "mousemove" -> "pointermove"
    [] OTHER -> type

\* dispatchMouseEvent: the events target.dispatchEvent is called with.
DispatchMouseEvent(event, target) ==
  <<[class |-> "MouseEvent", type |-> event.type, target |-> target],
    [class |-> "PointerEvent", type |-> ReplaceMouseByPointer(event.type),
     target |-> target]>>

\* dispatchTouchEvent, in a browser that has the Touch and TouchEvent
\* constructors.
DispatchTouchEvent(event, target) ==
  <<[class |-> "TouchEvent", type |-> event.type, target |-> target],
    [class |-> "PointerEvent",
     type |-> IF event.type = "touchstart" THEN "pointerdown"
              ELSE IF event.type = "touchend" THEN "pointerup"
              ELSE "pointermove",
     target |-> target]>>

\* dispatchScrollEvent: the scroll position is set, then one scroll event goes
\* to the target.
DispatchScrollEvent(event, target) ==
  <<[class |-> "Event", type |-> "scroll", target |-> target]>>

\* The switch of dispatchEvent, after findTarget.
DispatchByType(event, target) ==
  IF event.type \in MouseTypes THEN DispatchMouseEvent(event, target)
  ELSE IF event.type \in TouchTypes THEN DispatchTouchEvent(event, target)
  ELSE IF event.type = "scroll" THEN DispatchScrollEvent(event, target)
  ELSE <<>>

NoDispatch ==
  [event |-> [type |-> "none", target |-> "absent"], hit |-> FALSE,
   out |-> <<>>]

\* One replayer as dispatchEvent uses it.
NewDispatcher ==
  [targetDocument |-> FALSE,
   trace |-> <<>>,       \* observed: the types dispatchEvent was called with
   log |-> <<>>,         \* observed: class and type of every event dispatched
   last |-> NoDispatch]  \* observed: the last call, with what it dispatched

\* dispatchEvent(event) for one replayer.
DispatchTyped(d, event, hit) ==
  LET out == IF ~d.targetDocument THEN <<>>
             ELSE DispatchByType(event, FindTarget(event, hit))
  IN [d EXCEPT !.trace = Append(@, event.type),
               !.log = @ \o [k \in DOMAIN out |->
                               [class |-> out[k].class, type |-> out[k].type]],
               !.last = [event |-> event, hit |-> hit, out |-> out]]

UnchangedButDispatch ==
  UNCHANGED <<recVars, pageVars, replayVars, cropVars, timeVars, modeVars, ov,
              er>>

\* play() took the iframe's document: a new playback.
DispatchPlay ==
  /\ ~dsp.targetDocument
  /\ dsp' = [NewDispatcher EXCEPT !.targetDocument = TRUE]
  /\ lastOp' = "dsp:play"
  /\ UnchangedButDispatch

\* stop(): targetDocument = null.
DispatchStop ==
  /\ dsp.targetDocument
  /\ dsp' = [dsp EXCEPT !.targetDocument = FALSE]
  /\ lastOp' = "dsp:stop"
  /\ UnchangedButDispatch

\* The replay loop calls dispatchEvent for the event at its cursor.
DispatchEventCall ==
  /\ Len(dsp.trace) < MaxDispatches
  /\ \E type \in EventTypes, locator \in Locators, hit \in BOOLEAN :
       dsp' = DispatchTyped(dsp, [type |-> type, target |-> locator], hit)
  /\ lastOp' = "dsp:event"
  /\ UnchangedButDispatch

Init ==
  /\ isSupported \in BOOLEAN
  /\ mimeSupported \in BOOLEAN
  /\ sess = [s \in Sessions |-> NoSession]
  /\ isRecording = FALSE
  /\ isProcessing = FALSE
  /\ processingStatus = ""
  /\ isPrepared = FALSE
  /\ isPreparedRef = FALSE
  /\ recorderRef = 0
  /\ streamRef = 0
  /\ cropCleanupRef = 0
  /\ stops = <<>>
  /\ completions = <<>>
  /\ lastOp = "other"
  /\ countdown = 0
  /\ runs = <<>>
  /\ events = <<>>
  /\ isPlaying = FALSE
  /\ startTime = 0
  /\ currentIndex = 0
  /\ animationId = "null"
  /\ targetDocument = FALSE
  /\ rafs = 0
  /\ now = 0
  /\ dlog = <<>>
  /\ completes = 0
  /\ errors = 0
  /\ stoppedAt = -1
  /\ callerEvents = <<>>
  /\ comp = NoCompositor
  /\ rec = NewRecorder
  /\ im = NewInteractiveMode
  /\ ov = NewOverlayRecorder
  /\ er = NewEventRecorder
  /\ dsp = NewDispatcher

\* The hook, driven through its own operations.
Next ==
  \/ StartRecordingCall
  \/ PrepareRecordingCall
  \/ BeginCall
  \/ StopCall
  \/ \E s \in Sessions : DialogGranted(s)
  \/ \E s \in Sessions : DialogDenied(s)
  \/ \E s \in Sessions : StopEvent(s)
  \/ \E s \in Sessions : TrackEnded(s)

Spec == Init /\ [][Next]_vars

\* The page's reload-and-record driving the hook.
NextOrch ==
  \/ HandleReloadAndRecord
  \/ \E k \in 1..MaxRuns : CountdownTimer(k)
  \/ BeginCall
  \/ StopCall
  \/ \E s \in Sessions : DialogGranted(s)
  \/ \E s \in Sessions : DialogDenied(s)
  \/ \E s \in Sessions : StopEvent(s)
  \/ \E s \in Sessions : TrackEnded(s)

SpecOrch == Init /\ [][NextOrch]_vars

\* The replayer, driven through its public methods and the frame clock.
\* One compositor and the screenshot path, driven by the browser.
InitCrop == Init /\ isSupported /\ mimeSupported

NextCrop ==
  \/ CreateCroppedStreamCall
  \/ VideoLoadedMetadata
  \/ CompositorFrame
  \/ CompositorCleanupCall
  \/ RawTrackEnded
  \/ CaptureScreenshotCall

SpecCrop == InitCrop /\ [][NextCrop]_vars

\* One recorder instance with its clock.
InitTime == Init /\ isSupported /\ mimeSupported

NextTime ==
  \/ RecorderStartCall
  \/ RecorderPauseCall
  \/ RecorderResumeCall
  \/ RecorderGetState
  \/ RecorderStopCall
  \/ RecorderStopEvent
  \/ ClockTick

SpecTime == InitTime /\ [][NextTime]_vars

\* The interactive-mode controller with the replayer it creates.
InitMode == Init /\ isSupported /\ mimeSupported

NextMode ==
  \/ ImStartRecordingCall
  \/ ImStopRecordingCall
  \/ ImReplayCall
  \/ ImAnimationFrame
  \/ ImClearCall

SpecMode == InitMode /\ [][NextMode]_vars

\* The two interaction recorders, driven by their callers and the browser.
InitTrace == Init /\ isSupported /\ mimeSupported

NextTrace ==
  \/ OverlayStartCall
  \/ OverlayStopCall
  \/ OverlayClearCall
  \/ OverlayMouseMove
  \/ OverlayWindowBlur
  \/ OverlayTouchStart
  \/ OverlayFocusTimer
  \/ EventRecorderStartCall
  \/ EventRecorderStopCall
  \/ EventRecorderClearCall
  \/ EventRecorderEvent

SpecTrace == InitTrace /\ [][NextTrace]_vars

InitDispatch == Init /\ isSupported /\ mimeSupported

NextDispatch ==
  \/ DispatchPlay
  \/ DispatchStop
  \/ DispatchEventCall

SpecDispatch == InitDispatch /\ [][NextDispatch]_vars

InitPreview == Init /\ isSupported /\ mimeSupported

NextPreview ==
  \/ CreateForPreview
  \/ PreviewLoadedMetadata
  \/ PreviewFrame
  \/ PreviewUnmount
  \/ PreviewMount
  \/ CompositorCleanupCall
  \/ RawTrackEnded

SpecPreview == InitPreview /\ [][NextPreview]_vars

InitReplay == Init /\ isSupported /\ mimeSupported

NextReplay ==
  \/ LoadEventsCall
  \/ PlayCall
  \/ ReplayerStopCall
  \/ AnimationFrame

SpecReplay == InitReplay /\ [][NextReplay]_vars

\* The replayer given traces with an event whose dispatch throws.
InitFault == Init /\ isSupported /\ mimeSupported

NextFault ==
  \/ LoadFaultyEventsCall
  \/ PlayCall
  \/ ReplayerStopCall
  \/ AnimationFrame

SpecFault == InitFault /\ [][NextFault]_vars

\* ---- properties ----------------------------------------------------------------

\* A capture is released: every track of it stopped or ended, no draw loop.
Released(s) ==
  sess[s].raw # "live" /\ sess[s].canvas # "live" /\ ~sess[s].loop

IsPrefix(a, b) == Len(a) <= Len(b) /\ SubSeq(b, 1, Len(a)) = a

\* The steps of a reload-and-record run that goes through.
FullRun ==
  <<"prepared">> \o [j \in 1..CountdownTicks |-> "tick"] \o <<"reload", "begin">>

Rank(what) == CASE what = "legacy" -> 1 [] what = "pointer" -> 2 [] OTHER -> 3

\* C1: whatever the capture order of the loaded trace, a playback dispatches in
\* non-decreasing timestamp order, and everything of one event (legacy event,
\* pointer event, progress notification, in this order) comes before anything
\* of the next event.
DispatchInTimestampOrder ==
  \A p, q \in DOMAIN dlog :
    p < q => /\ dlog[p].ts <= dlog[q].ts
             /\ dlog[p].i <= dlog[q].i
             /\ dlog[p].i = dlog[q].i => Rank(dlog[p].what) < Rank(dlog[q].what)

\* C1 witness: two events captured in the opposite order of their timestamps
\* have both been dispatched.
DispatchedReorderedTrace ==
  \E p, q \in DOMAIN dlog :
    /\ p < q
    /\ dlog[p].what = "progress" /\ dlog[q].what = "progress"
    /\ dlog[p].ts < dlog[q].ts
    /\ dlog[q].i < Len(events)
    /\ events[dlog[p].i + 1].id > events[dlog[q].i + 1].id
    /\ \E m \in DOMAIN dlog : dlog[m].i = dlog[q].i /\ dlog[m].what = "pointer"

\* C2: a stop whose encoder finalizes with an empty buffer fails with "No data
\* recorded"; no stop resolves with a blob of zero chunks, and every completion
\* callback carries a blob of at least one chunk, one per resolved stop.
EmptyStopFails ==
  /\ \A id \in DOMAIN stops :
       /\ stops[id].status = "blob" => stops[id].chunks = "some"
       /\ stops[id].chunks = "empty" => stops[id].status = "NoDataRecorded"
  /\ \A k \in DOMAIN completions : completions[k] = "some"
  /\ Len(completions) =
       Cardinality({id \in DOMAIN stops : stops[id].status = "blob"})

\* C2 witness: a stop has failed with "No data recorded" on an empty buffer,
\* and no completion callback has run.
StopFailedOnEmptyBuffer ==
  /\ \E id \in DOMAIN stops :
       stops[id].status = "NoDataRecorded" /\ stops[id].chunks = "empty"
  /\ completions = <<>>

\* C3: when the capture of the recording in progress (full tab or cropped) ends
\* outside the application, the stop path runs: the encoder is told to finalize.
ExternalEndFinalizes ==
  [][\A s \in Sessions :
       (/\ recorderRef = s /\ isRecording /\ sess[s].mr = "recording"
        /\ sess[s].raw = "live" /\ sess'[s].raw = "ended")
       => sess'[s].stopEvt]_vars

\* C4: stopRecording with the recorder reference cleared returns null and
\* changes nothing: no completion callback, no state change.
StopWhenIdleIsNoOp ==
  [][(lastOp' \in {"stop:null", "stop:awaiting"} /\ recorderRef = 0)
     => (lastOp' = "stop:null" /\ UNCHANGED <<recVars, pageVars>>)]_vars

\* C4 witness: a stopRecording returned null after a recording had completed.
StoppedAgainAfterCompletion ==
  /\ lastOp = "stop:null"
  /\ \E id \in DOMAIN stops : stops[id].status = "blob"
  /\ Len(completions) = 1

\* C5: every stopRecording that reached the encoder either still has its stop
\* event coming or has settled with the capture it stopped released (all tracks
\* stopped, draw loop cancelled) and isProcessing cleared.
StopAlwaysReleases ==
  \A id \in DOMAIN stops :
    IF stops[id].status = "awaiting"
      THEN sess[stops[id].target].stopEvt /\ sess[stops[id].target].onstop = id
      ELSE Released(stops[id].target)

\* C6: a prepared session that was torn down has its tracks stopped and its
\* draw loop cancelled, and its encoder was never started.
TornDownPreparedIsReleased ==
  \A s \in Sessions :
    sess[s].torn => Released(s) /\ ~sess[s].started /\ sess[s].mr # "recording"

\* C6 witness: a cropped prepared session was torn down before any begin.
TornDownCroppedPrepared ==
  \E s \in Sessions :
    /\ sess[s].torn /\ sess[s].kind = "prepare" /\ sess[s].crop
    /\ sess[s].raw = "stopped" /\ sess[s].canvas = "stopped"
    /\ ~isPrepared /\ recorderRef = 0

\* C7: at most one encoder is recording, and the capture of a session that was
\* set up is, while live, the one the hook holds (each stream has one owner,
\* which releases it once).
AtMostOneRecording ==
  /\ Cardinality({s \in Sessions : sess[s].mr = "recording"}) <= 1
  /\ \A s \in Sessions :
       /\ sess[s].rawStops <= 1
       /\ (sess[s].raw = "live" /\ sess[s].phase = "ready")
            => (recorderRef = s \/ streamRef = s \/ cropCleanupRef = s)

\* C8: a start or prepare that failed after the stream was acquired leaves the
\* stream's tracks stopped, the draw loop cancelled and no reference to it.
FailedSetupIsReleased ==
  \A s \in Sessions :
    sess[s].phase = "failed"
      => (Released(s) /\ streamRef # s /\ cropCleanupRef # s)

\* C9: a reload-and-record run goes prepared, CountdownTicks ticks, reload,
\* begin, in this order, and only for a prepareRecording that succeeded; a run
\* whose prepareRecording failed does nothing more, and the countdown shows
\* only while a run is counting.
ReloadAndRecordOrder ==
  /\ \A k \in DOMAIN runs :
       /\ IsPrefix(runs[k].log, FullRun) \/ runs[k].log = <<"prepare_failed">>
       /\ (runs[k].log # <<>> /\ runs[k].log[1] = "prepared")
            => \E s \in Sessions : sess[s].run = k /\ sess[s].phase = "ready"
       /\ runs[k].pc = "aborted" => runs[k].log = <<"prepare_failed">>
       /\ runs[k].pc = "done" => runs[k].log = FullRun
  /\ countdown # 0 => \E k \in DOMAIN runs : runs[k].pc = "countdown"

\* C9 witness: a run went through all its steps and the recording it prepared
\* is running.
ReloadAndRecordDone ==
  \E k \in DOMAIN runs :
    /\ runs[k].log = FullRun
    /\ isRecording /\ recorderRef # 0 /\ sess[recorderRef].run = k
    /\ sess[recorderRef].mr = "recording"

\* C10: beginPreparedRecording without a recorder or with the prepared flag
\* false returns without starting an encoder and changes nothing.
BeginUnpreparedIsNoOp ==
  [][(lastOp' \in {"begin:noop", "begin:threw", "begin:started"}
      /\ (recorderRef = 0 \/ ~isPreparedRef))
     => (lastOp' = "begin:noop" /\ UNCHANGED <<recVars, pageVars>>)]_vars

\* C10 witness: beginPreparedRecording was called while a recording started by
\* startRecording was running, and returned without effect.
BeganWhileRecording ==
  /\ lastOp = "begin:noop"
  /\ recorderRef # 0 /\ ~isPreparedRef /\ sess[recorderRef].mr = "recording"

\* Every event of the loaded trace has had its legacy and pointer event.
AllDispatched ==
  \A k \in 1..Len(events) :
    \E p \in DOMAIN dlog : dlog[p].i = k - 1 /\ dlog[p].what = "pointer"

\* onComplete ran in this step.
CompletionSignalled ==
  IF lastOp' \in {"play:empty", "play:started"}
    THEN completes' = 1
    ELSE completes' > completes

\* C11: in a playback that stop() has not touched, onComplete runs at most
\* once, and when it runs every event of the loaded trace has been dispatched
\* and the replayer is no longer playing.
CompletesOnceAfterAllEvents ==
  [][(CompletionSignalled /\ stoppedAt' = -1)
     => (completes' = 1 /\ AllDispatched' /\ ~isPlaying'
         /\ currentIndex' = Len(events'))]_vars

\* C11 witness: a playback of a full-length trace completed on a frame,
\* without a stop().
CompletedOnFrame ==
  /\ lastOp = "frame" /\ completes = 1 /\ stoppedAt = -1
  /\ Len(events) = MaxLen /\ AllDispatched

\* replayLoop got past its guard in this step.
TickRan ==
  \/ lastOp' = "play:started"
  \/ lastOp' = "frame" /\ isPlaying /\ targetDocument

\* No event that is due at the elapsed time of the last clock reading is
\* still ahead of the cursor, and unless stop() intervened each of them has
\* been dispatched.
NoDueEventLeft ==
  \A k \in 1..Len(events) :
    events[k].timestamp <= now - startTime
      => /\ k <= currentIndex
         /\ stoppedAt = -1 =>
              \E p \in DOMAIN dlog : dlog[p].i = k - 1 /\ dlog[p].what = "pointer"

\* C12: when a tick of the replay loop ends, every event whose timestamp is at
\* most the elapsed time read at that tick is behind the cursor (dispatched).
TickDispatchesEveryDueEvent == [][TickRan => NoDueEventLeft']_vars

\* C12 witness: one frame dispatched two events that became due together.
FrameDispatchedTwoEvents ==
  /\ lastOp = "frame" /\ stoppedAt = -1 /\ Len(events) >= 2
  /\ events[1].timestamp = events[2].timestamp
  /\ events[1].timestamp > 0
  /\ Len(dlog) >= 6 /\ dlog[1].i = 0 /\ dlog[6].i = 1

\* C13: stop() is accepted in every state; it cancels the frame request the
\* replayer holds, runs no callback, and leaves the replayer not playing and
\* without target; from then until the next play() no event is dispatched; a
\* second stop() changes nothing.
StopHaltsReplay ==
  /\ [](stoppedAt # -1 =>
          /\ ~isPlaying /\ ~targetDocument
          /\ \A p \in DOMAIN dlog : p > stoppedAt => dlog[p].what = "progress")
  /\ [](ReplayerStop(ReplayerStop(Replayer)) = ReplayerStop(Replayer))
  /\ [][lastOp' = "stop" =>
          /\ animationId' = "null"
          /\ rafs' = IF animationId = "pending" THEN rafs - 1 ELSE rafs
          /\ dlog' = dlog /\ completes' = completes /\ errors' = errors
          /\ events' = events /\ currentIndex' = currentIndex]_vars

\* C13 witness: stop() came while a playback was waiting for its next frame
\* with events still to dispatch, and the frame request is gone.
StoppedMidPlayback ==
  /\ lastOp = "stop" /\ stoppedAt > 0
  /\ currentIndex < Len(events) /\ rafs = 0 /\ completes = 0

SourceRectWithinFrame ==
  comp.by # "none" =>
    /\ 0 <= comp.src.sx /\ 0 <= comp.src.sy
    /\ comp.src.sx + comp.src.sw <= comp.src.videoWidth * comp.src.dx
    /\ comp.src.sy + comp.src.sh <= comp.src.videoHeight * comp.src.dy

\* C16: the duration getState() reports while recording, and the duration set
\* when the recorder stops, is the wall-clock time since start() less all the
\* time spent paused, a pause still open included.
DurationExcludesPausedTime ==
  lastOp \in {"rec:getState", "rec:stopped"} =>
    rec.reported = rec.since - rec.pausedFor

HookIdle ==
  /\ recorderRef = 0 /\ streamRef = 0 /\ cropCleanupRef = 0
  /\ ~isPrepared /\ ~isPreparedRef /\ ~isRecording

\* The session of a capture request holds nothing.
HoldsNothing(s) ==
  /\ sess[s].raw = "none" /\ sess[s].canvas = "none" /\ ~sess[s].loop
  /\ sess[s].mr = "none" /\ sess[s].onended = "none"

AcquisitionFailed ==
  lastOp' \in {"start:unsupported", "prepare:unsupported",
               "start:denied", "prepare:denied"}

\* C17: a startRecording / prepareRecording whose acquisition fails (capture
\* not supported, or the dialog declined) changes nothing in the hook and its
\* session holds no stream, compositor or recorder; without support no capture
\* request is made; and while every request so far has failed that way the
\* hook is idle.  The failure does not stand in the way of a later request.
AcquisitionFailureLeavesIdle ==
  /\ [][AcquisitionFailed =>
          /\ UNCHANGED <<isRecording, isProcessing, isPrepared, isPreparedRef,
                         recorderRef, streamRef, cropCleanupRef, stops,
                         completions>>
          /\ \A s \in Sessions :
               IF sess[s].phase = "dialog" /\ sess'[s].phase # "dialog"
                 THEN sess'[s].phase = "denied" /\ HoldsNothing(s)'
                 ELSE sess'[s] = sess[s]
          /\ ~isSupported => sess' = sess]_vars
  /\ []((\A s \in Sessions : sess[s].phase \in {"unused", "dialog", "denied"})
          => HookIdle)
  /\ []((isSupported /\ NewSession <= MaxSessions
          /\ \A s \in Sessions : sess[s].phase # "dialog")
          => ENABLED StartRecordingCall /\ ENABLED PrepareRecordingCall)

\* C17 witness: the first request was declined and the second one records.
RecordingAfterDeclinedRequest ==
  /\ sess[1].phase = "denied" /\ HoldsNothing(1)
  /\ sess[2].phase = "ready" /\ sess[2].mr = "recording"
  /\ isRecording /\ recorderRef = 2

ReplayAttemptEnded ==
  lastOp' \in {"im:replay:completed", "im:replay:rejected",
               "im:frame:completed"}

\* C18: when a replay attempt ends, by completion or by a play() that
\* reports an error and rejects, the controller is in mode 'recorded' with
\* replayProgress undefined and holds no replayer; a controller in mode
\* 'replaying' always has a playing replayer with a frame request pending;
\* and in mode 'recorded' with events a replay is taken up again.
ReplayEndReturnsToRecorded ==
  /\ [][ReplayAttemptEnded =>
          /\ im'.mode = "recorded" /\ im'.replayProgress = NoProgress
          /\ ~im'.replayerRef /\ ~isPlaying' /\ rafs' = 0]_vars
  /\ [](im.mode = "replaying" => isPlaying /\ rafs = 1 /\ im.replayerRef)
  /\ []((im.mode = "recorded" /\ Len(im.events) > 0) =>
          \A t \in now..MaxNow, doc \in BOOLEAN :
            ImReplay(im, t, doc, rafs).res # "refused")

\* C18 witness: the replay of a full trace has completed in a frame, after
\* play() had returned, with every event dispatched.
ReplayCompletedOnLaterFrame ==
  /\ lastOp = "im:frame:completed" /\ im.mode = "recorded"
  /\ im.replayProgress = NoProgress /\ Len(im.events) = MaxLen
  /\ completes = 1 /\ Len(dlog) = 3 * MaxLen

\* A step in which drawFrame ran on a running compositor.
DrawFrameRan ==
  /\ lastOp' \in {"crop:loaded", "crop:frame"}
  /\ comp.isRunning

\* C19: a run of drawFrame that finds the crop element unresolved draws
\* nothing, leaves the compositor running and requests the next frame; a run
\* that finds it resolved draws, whatever the runs before it found.
UnresolvedElementSkipsTick ==
  [][DrawFrameRan =>
       /\ comp'.isRunning /\ comp'.frameRequested
       /\ IF comp'.element # 0
            THEN comp'.tick = "draw" /\ comp'.by = "drawFrame"
            ELSE comp'.tick = "skip" /\ comp'.src = comp.src
                 /\ comp'.by = comp.by]_vars

\* C19 witness: the element went unresolved after the compositor had drawn
\* frames; the tick was skipped and the next one is requested.
SkippedTickAfterDrawing ==
  /\ lastOp = "crop:frame" /\ comp.tick = "skip" /\ comp.element = 0
  /\ comp.by = "drawFrame" /\ comp.frameRequested /\ comp.isRunning

\* C20: the cleanup of a cropped capture cancels the draw loop, then detaches
\* the video sink, then stops the raw tracks, in that order and all three;
\* the raw tracks of a cropped capture are never stopped while its draw loop
\* is scheduled or its sink attached.
CroppedCleanupOrder ==
  \A s \in Sessions : sess[s].crop =>
    /\ sess[s].order \in {<<>>, <<"cancel", "detach", "raw">>}
    /\ sess[s].rawStops > 0 =>
         ~sess[s].loop /\ ~sess[s].sink /\ sess[s].order # <<>>
    /\ sess[s].order # <<>> =>
         ~sess[s].loop /\ ~sess[s].sink /\ sess[s].raw \in {"stopped", "ended"}

\* C20 witness: a cropped recording was stopped and cleaned up.
CroppedRecordingCleanedUp ==
  \E s \in Sessions :
    /\ sess[s].crop /\ sess[s].started
    /\ sess[s].order = <<"cancel", "detach", "raw">>
    /\ sess[s].raw = "stopped" /\ sess[s].canvas = "stopped"

\* The last mousemove the overlay recorder handled was over the ad.
LastKnownOverAd ==
  /\ ov.lastMove # NoPoint
  /\ ov.lastMove.x >= 0 /\ ov.lastMove.y >= 0
  /\ ov.lastMove.x <= 2 * ov.width /\ ov.lastMove.y <= 2 * ov.height

\* C21: a window blur during an overlay recording appends exactly one click
\* when the pointer was last known over the ad, at that position (rounded to
\* pixels) and at the blur's time since the recording's start (rounded to
\* milliseconds), and schedules one focus restore; any other blur appends
\* nothing and schedules nothing.
BlurOverAdRecordsClick ==
  [][lastOp' = "ov:blur" =>
       IF ov.isRecording /\ LastKnownOverAd
         THEN /\ ov'.events =
                   Append(ov.events,
                          [type |-> "click",
                           timestamp |-> Round(ov'.now - ov.startTime),
                           x |-> Round(ov.lastMove.x),
                           y |-> Round(ov.lastMove.y)])
              /\ ov'.focusTimers = ov.focusTimers + 1
              /\ ov'.count = Len(ov'.events)
         ELSE ov' = ov]_vars

\* C21 witness: a second click was inferred from a blur, half a pixel into the
\* ad and some time after the recording's start.
BlurRecordedSecondClick ==
  /\ lastOp = "ov:blur" /\ ov.isRecording /\ Len(ov.events) = 2
  /\ ov.events[2].type = "click" /\ ov.events[2].timestamp > 0
  /\ ov.lastMove.x = 1 /\ ov.events[2].x = 1 /\ ov.focusTimers = 1

\* A trace whose timestamps are non-negative and never decrease.
TimestampsOrdered(trace) ==
  \A i \in 1..Len(trace) :
     /\ trace[i].timestamp >= 0
     /\ i > 1 => trace[i - 1].timestamp <= trace[i].timestamp

\* C22: in every reachable state of the overlay recorder and of the iframe
\* event recorder, the timestamps of the recorded trace are non-negative and
\* non-decreasing in trace order.
TraceTimestampsOrdered ==
  TimestampsOrdered(ov.events) /\ TimestampsOrdered(er.events)

\* A recording that started after time zero holds two events, the second one
\* later than the first.
TwoEventsAtDistinctTimes ==
  /\ ov.isRecording /\ ov.startTime > 0 /\ Len(ov.events) = 2
  /\ ov.events[1].timestamp < ov.events[2].timestamp

\* The overlay recorder's stop() has returned and neither start() nor clear()
\* ran since; likewise for the iframe event recorder.
OverlayStopped == ~ov.isRecording /\ ov.returned.stopped
EventRecorderStopped == ~er.isRecording /\ er.returned.stopped

\* C23: once a recorder's stop() has returned, its trace is immutable: blur,
\* mousemove and touch notifications arriving afterwards append nothing, the
\* event count stays fixed, and a repeated stop() returns the same events; the
\* trace changes only on the next start() or clear().
StoppedTraceImmutable ==
  [][/\ OverlayStopped /\ lastOp' \notin {"ov:start", "ov:clear"}
        => /\ ov'.events = ov.events
           /\ ov'.count = ov.count
           /\ ov'.returned = ov.returned
           /\ ov'.returned.events = ov'.events
     /\ EventRecorderStopped /\ lastOp' \notin {"er:start", "er:clear"}
        => /\ er'.events = er.events
           /\ er'.returned = er.returned
           /\ er'.returned.events = er'.events]_vars

\* A touch arrives after stop() returned a trace of one click.
TouchAfterStop ==
  /\ lastOp = "ov:touch" /\ OverlayStopped /\ Len(ov.events) = 1
  /\ ov.events[1].type = "click" /\ ov.returned.events = ov.events

\* The array is as Tagged made it: every event at the position its id names.
InCaptureOrder(array) == \A k \in DOMAIN array : array[k].id = k

\* C24: loadEvents stores a permutation of the input events sorted by
\* non-decreasing timestamp, keeps the relative order of events with equal
\* timestamps, resets the replay cursor to 0 and leaves the caller's array as
\* it was.
LoadEventsSortsCopy ==
  [][lastOp' = "load" =>
       /\ InCaptureOrder(callerEvents')
       /\ Len(events') = Len(callerEvents')
       /\ \A k \in DOMAIN callerEvents' :
            \E p \in DOMAIN events' : events'[p] = callerEvents'[k]
       /\ \A p, q \in DOMAIN events' :
            p < q => \/ events'[p].timestamp < events'[q].timestamp
                     \/ /\ events'[p].timestamp = events'[q].timestamp
                        /\ events'[p].id < events'[q].id
       /\ currentIndex' = 0]_vars

\* After a playback ran to its end, a trace captured out of timestamp order has
\* been loaded.
LoadedUnorderedAfterPlayback ==
  /\ lastOp = "load" /\ completes = 1 /\ Len(callerEvents) = 2
  /\ callerEvents[1].timestamp > callerEvents[2].timestamp
  /\ events[1].id = 2

\* The clicks the playback replayed, and the click events it dispatched.
ClicksReplayed == Cardinality({k \in DOMAIN dsp.trace : dsp.trace[k] = "click"})
ClickEventsDispatched ==
  Cardinality({k \in DOMAIN dsp.log : dsp.log[k].type = "click"})

\* C25: each replayed mouse or touch event dispatches exactly two events to one
\* target, the legacy event and then the corresponding pointer event, so that a
\* playback has dispatched as many click events as it replayed clicks, and as
\* many pointer events as it replayed mouse and touch events.
OneClickEventPerClick ==
  dsp.targetDocument =>
    /\ ClickEventsDispatched = ClicksReplayed
    /\ LET out == dsp.last.out
       IN dsp.last.event.type \in MouseTypes \cup TouchTypes =>
            /\ Len(out) = 2
            /\ out[1].target = out[2].target
            /\ out[1].class \in {"MouseEvent", "TouchEvent"}
            /\ out[1].type = dsp.last.event.type
            /\ out[2].class = "PointerEvent"

\* The target the last dispatchEvent call resolved: every event it dispatched
\* went to it.
ResolvedTarget == dsp.last.out[1].target

\* C27: the replay target of an event is the element its stored locator
\* matches when the locator is present and matches in the document; otherwise
\* (locator absent, invalid or unmatched) the element a hit test at the event's
\* coordinates finds, and the document body if the hit test finds none.
TargetByLocatorThenHitTest ==
  dsp.last.out # <<>> =>
    /\ \A k \in DOMAIN dsp.last.out : dsp.last.out[k].target = ResolvedTarget
    /\ dsp.last.event.target = "matching" => ResolvedTarget = "querySelector"
    /\ dsp.last.event.target \in {"absent", "invalid", "unmatched"} =>
         ResolvedTarget = IF dsp.last.hit THEN "elementFromPoint" ELSE "body"

\* An event whose locator is no valid selector went to the body, the hit test
\* having found nothing.
InvalidLocatorFellBackToBody ==
  /\ lastOp = "dsp:event" /\ dsp.last.event.target = "invalid" /\ ~dsp.last.hit
  /\ dsp.last.out # <<>> /\ ResolvedTarget = "body"

\* The progress notifications of the current playback, as positions of dlog;
\* the count a notification reports is the cursor after the increment.
ProgressAt == {p \in DOMAIN dlog : dlog[p].what = "progress"}
ReportedCount(p) == dlog[p].i + 1

\* The event at cursor position k had both its events dispatched before
\* position p of the log.
DispatchedBefore(k, p) ==
  \E q \in 1..(p - 1) : dlog[q].i = k /\ dlog[q].what = "pointer"

\* The counts are strictly increasing and none exceeds the total.
ProgressCountsIncrease ==
  /\ \A p, q \in ProgressAt : p < q => ReportedCount(p) < ReportedCount(q)
  /\ \A p \in ProgressAt : ReportedCount(p) <= Len(events)

\* Every event a notification counts was dispatched before it.
ProgressFollowsDispatch ==
  \A p \in ProgressAt :
    \A k \in 0..(ReportedCount(p) - 1) : DispatchedBefore(k, p)

\* The total of a trace that has events has been reported.
TotalReported ==
  Len(events) > 0 => \E p \in ProgressAt : ReportedCount(p) = Len(events)

\* C26: the progress notifications of a replay report the number of events
\* dispatched so far and the total: the count is strictly increasing, never
\* exceeds the total, is reported only after the counted events have been
\* dispatched, and has reached the total when completion is signalled.
ProgressCountsDispatchedEvents ==
  /\ [](ProgressCountsIncrease /\ ProgressFollowsDispatch)
  /\ [][CompletionSignalled => TotalReported']_vars

\* C28: the crop target is resolved anew on every composited frame: with a
\* resolver function in the crop config, every run of drawFrame takes the
\* element the preview's ref holds at that moment, and every frame drawn after
\* the element was replaced has the new element's rectangle as its source.
FrameUsesCurrentElement ==
  [][(DrawFrameRan /\ comp.getter) =>
       /\ comp'.element = comp.previewFrame
       /\ comp'.tick = "draw" =>
            \E vp \in Viewports :
              comp'.src = SourceRect(LayoutRect(comp, comp.previewFrame),
                                     comp.width, comp.height,
                                     comp'.videoWidth, comp'.videoHeight, vp)]_vars

\* A compositor that drew the first preview element has drawn a frame of the
\* element that replaced it.
DrewReplacedElement ==
  /\ lastOp = "crop:frame" /\ comp.getter /\ comp.tick = "draw"
  /\ comp.mounted = 2 /\ comp.previewFrame = 2 /\ comp.element = 2
  /\ comp.src.sx = (2 * 1 + 1 - comp.width) * comp.videoWidth

\* C29: on every drawn frame the source rectangle is in raw-frame coordinates:
\* with scaleX = frameWidth / viewportWidth, scaleY = frameHeight /
\* viewportHeight, sx = (rect.left + (rect.width - width) / 2) * scaleX,
\* sy = (rect.top + (rect.height - height) / 2) * scaleY, sw = width * scaleX,
\* sh = height * scaleY; the destination is (0, 0, width, height); and nothing
\* is drawn for a raw frame of size zero.  The values are the fractions
\* sx/dx, sw/dx, sy/dy, sh/dy, compared after multiplying out.
SourceRectInFrameCoordinates ==
  /\ comp.by = "drawFrame" =>
       LET s == comp.src
       IN /\ s.videoWidth > 0 /\ s.videoHeight > 0
          /\ 2 * s.vp.width * s.sx
               = (2 * s.rect.left + (s.rect.width - comp.width))
                   * s.videoWidth * s.dx
          /\ 2 * s.vp.height * s.sy
               = (2 * s.rect.top + (s.rect.height - comp.height))
                   * s.videoHeight * s.dy
          /\ s.vp.width * s.sw = comp.width * s.videoWidth * s.dx
          /\ s.vp.height * s.sh = comp.height * s.videoHeight * s.dy
          /\ s.dx > 0 /\ s.dy > 0
          /\ s.to = <<0, 0, comp.width, comp.height>>
  /\ comp.isRunning =>
       \A rect \in Rects, vp \in Viewports, vw \in {0, comp.videoWidth} :
         LET c == DrawFrame([comp EXCEPT !.videoWidth = vw,
                                         !.videoHeight = IF vw = 0 THEN @ ELSE 0],
                            1, rect, vp)
         IN c.src = comp.src /\ c.by = comp.by /\ c.frameRequested

\* A frame was drawn of an element narrower than the ad that does not start
\* at the viewport's origin.
DrewOffCentreElement ==
  /\ lastOp = "crop:frame" /\ comp.tick = "draw" /\ comp.by = "drawFrame"
  /\ comp.src.rect.left = 1 /\ comp.src.rect.width = 0 /\ comp.width = 1
  /\ comp.src.sx = 1 /\ comp.src.dx = 2

\* Two stopRecording calls reached the encoder of one recording, the later one
\* while the earlier one was awaiting its finalization, and the encoder has
\* finalized: its stop event was delivered.
RacingStopsFinalized(a, b) ==
  /\ a < b /\ stops[a].target = stops[b].target
  /\ sess[stops[a].target].started
  /\ sess[stops[a].target].mr = "inactive"
  /\ ~sess[stops[a].target].stopEvt

\* C30: when stopRecording is invoked while an earlier stopRecording is still
\* awaiting the encoder's finalization, both calls settle, onRecordingComplete
\* fires once for the recording, and the hook is left idle with isProcessing
\* false.
RacingStopsBothSettle ==
  \A a, b \in DOMAIN stops :
    RacingStopsFinalized(a, b) =>
      /\ stops[a].status # "awaiting" /\ stops[b].status # "awaiting"
      /\ Cardinality({id \in DOMAIN stops :
                        /\ stops[id].target = stops[a].target
                        /\ stops[id].status = "blob"}) <= 1
      /\ recorderRef = 0 => ~isRecording /\ ~isProcessing

\* C31: stopRecording on a session that was prepared but never begun (the
\* encoder was constructed and never started) terminates.  The promise
\* recorder.stop() returns is settled by the encoder's stop event (onstop) and by
\* nothing else, so the call can terminate only while that event is queued for
\* it: a call that awaits with no stop event queued stays in
\* "Stopping recording..." with the stream held.
StopOfPreparedSettles ==
  \A id \in DOMAIN stops :
    LET r == stops[id].target
    IN ~sess[r].started /\ stops[id].status = "awaiting" =>
         sess[r].stopEvt /\ sess[r].onstop = id

\* C32: when the capture of the prepared session the hook holds ends outside
\* the application before beginPreparedRecording, the session is cleaned up in
\* the same step (tracks stopped, draw loop cancelled, isPrepared false), and no
\* later step starts its encoder or sets isRecording for it.
EndWhilePreparedCleansUp ==
  [][\A s \in Sessions :
       /\ (/\ recorderRef = s /\ isPreparedRef /\ ~sess[s].started
           /\ sess[s].raw = "live" /\ sess'[s].raw = "ended")
          => (/\ sess'[s].raw # "live" /\ sess'[s].canvas # "live"
              /\ ~sess'[s].loop
              /\ ~isPrepared' /\ ~isPreparedRef' /\ recorderRef' = 0)
       /\ (sess[s].kind = "prepare" /\ sess[s].raw = "ended" /\ ~sess[s].started)
          => (~sess'[s].started /\ sess'[s].mr # "recording"
              /\ (recorderRef' = s => ~isRecording'))]_vars

\* C33: once stop() has been called in a replay, no progress callback and no
\* completion callback runs for that replay any more, also when the stop() came
\* from inside a progress callback in the middle of a batch of due events: the
\* log holds no progress entry behind the point of the stop, and a tick in which
\* or before which stop() was called does not signal completion.
NoCallbackAfterStop ==
  /\ [](stoppedAt # -1 =>
          \A p \in DOMAIN dlog : p > stoppedAt => dlog[p].what # "progress")
  /\ [][(stoppedAt' # -1 /\ lastOp' \in {"frame", "play:started"})
          => ~CompletionSignalled]_vars

\* C34: the promise of a play() that started the loop settles also when stop()
\* is called during the playback.  The promise is settled by the wrapped
\* onComplete and onError, which only a tick of the loop calls, and a tick gets
\* past its guard only while the replayer is playing with a target document;
\* so a stop() during a playback must leave the promise settled, or the loop
\* able to run.
StopSettlesPlayPromise ==
  [][(lastOp' = "stop" /\ isPlaying)
       => \/ completes' > completes \/ errors' > errors
          \/ isPlaying' /\ targetDocument']_vars

\* C35: within one play() no event of the loaded trace is dispatched twice,
\* whatever the interleaving of play(), loadEvents() and a second play(): a
\* play() on a playing replayer changes neither the cursor nor what the loop
\* reports, and while the playback lasts the cursor never moves backwards (the
\* loop dispatches the event under the cursor, so a cursor that goes back
\* dispatches again).
CursorNeverGoesBack ==
  [][/\ lastOp' = "play:playing" =>
          /\ currentIndex' = currentIndex /\ events' = events
          /\ dlog' = dlog /\ completes' = completes /\ errors' = errors
          /\ isPlaying' /\ rafs' = rafs
     /\ (isPlaying /\ isPlaying') => currentIndex' >= currentIndex]_vars

\* C36: an exception while one replayed event is dispatched is contained.  The
\* cursor goes past the event and its progress is reported; the log stays in
\* cursor order; a tick reports no error; and in a playback that stop() has not
\* touched every event behind the cursor that can be dispatched has had its
\* legacy and pointer event, and completion is signalled once, in the tick in
\* which the cursor reaches the end of the trace.
DispatchFailureContained ==
  /\ [](\A p \in DOMAIN dlog :
          dlog[p].what = "caught" =>
            /\ currentIndex > dlog[p].i
            /\ p < Len(dlog)
            /\ dlog[p + 1].what = "progress" /\ dlog[p + 1].i = dlog[p].i)
  /\ [](\A p, q \in DOMAIN dlog : p < q => dlog[p].i <= dlog[q].i)
  /\ [][TickRan =>
          /\ errors' = 0
          /\ stoppedAt' = -1 =>
               /\ \A k \in 1..currentIndex' :
                    events'[k].fault = "none" =>
                      \E p, q \in DOMAIN dlog' :
                        /\ p < q /\ dlog'[p].i = k - 1 /\ dlog'[q].i = k - 1
                        /\ dlog'[p].what = "legacy" /\ dlog'[q].what = "pointer"
               /\ completes' <= 1
               /\ completes' = 1 <=> currentIndex' = Len(events')]_vars

\* C36 witness: a playback of a full-length trace completed on a frame although
\* the dispatch of its first event threw; the last event was dispatched.
CompletedDespiteFailure ==
  /\ lastOp = "frame" /\ completes = 1 /\ stoppedAt = -1 /\ errors = 0
  /\ Len(events) = MaxLen /\ events[1].fault # "none"
  /\ \E p \in DOMAIN dlog : dlog[p].what = "caught" /\ dlog[p].i = 0
  /\ \E p \in DOMAIN dlog : dlog[p].what = "pointer" /\ dlog[p].i = MaxLen - 1

\* C37: play() with an empty loaded trace, on a replayer that is not playing,
\* signals completion once and at once: nothing is dispatched, no error is
\* reported, the replayer does not become playing and no frame is requested,
\* whether or not the target document is accessible.
EmptyPlayCompletesAtOnce ==
  /\ [](Len(events) = 0 /\ ~isPlaying =>
          \A doc \in BOOLEAN, cb \in Callbacks :
            LET r == ReplayerPlay(Replayer, now, doc, cb)
            IN /\ PlayOutcome(Replayer, doc) = "play:empty"
               /\ r.completes = 1 /\ r.errors = 0 /\ r.dlog = <<>>
               /\ ~r.isPlaying /\ r.rafs = rafs
               /\ r.animationId = animationId
               /\ r.targetDocument = targetDocument
               /\ r.currentIndex = currentIndex /\ r.events = events)
  /\ [][lastOp' = "play:empty" =>
          /\ completes' = 1 /\ errors' = 0 /\ dlog' = <<>>
          /\ ~isPlaying' /\ rafs' = rafs /\ animationId' = animationId
          /\ targetDocument' = targetDocument /\ events' = events]_vars

\* C37 witness: play() found an empty trace on a replayer that had played a
\* trace to its end before, and signalled completion.
PlayedEmptyTrace ==
  /\ lastOp = "play:empty" /\ events = <<>> /\ completes = 1
  /\ ~isPlaying /\ dlog = <<>> /\ errors = 0 /\ now > 0

\* C38: in every session of an overlay recorder a blur records a click only if
\* a pointer position over the ad was observed in that session.  A blur that
\* is the first thing to happen after start() has no such observation, in a
\* second session as in the first, so it records nothing and schedules nothing.
BlurUsesOwnSessionOnly ==
  [][(lastOp = "ov:start" /\ lastOp' = "ov:blur") =>
       /\ ov'.events = ov.events
       /\ ov'.focusTimers = ov.focusTimers]_vars

\* C39: in every session of an event recorder the first mousemove is recorded,
\* and a mousemove is dropped only within 16 ms of the mousemove recorded before
\* it in the same session.  The event that is the first thing to happen after
\* start() has no recorded mousemove before it, in a second session as in the
\* first, so it is recorded whatever its type and its time.
FirstEventOfSessionRecorded ==
  [][(lastOp = "er:start" /\ lastOp' = "er:event") =>
       /\ Len(er'.events) = 1
       /\ er'.events[1].timestamp = Round(er'.now - er.startTime)]_vars

====
